---- MODULE Spec2Model ----
(***************************************************************************)
(* Custom-role analytics pipeline of ai-assisted-insights: the per-role    *)
(* SQLite store, the persisted plan file and the handlers that read and    *)
(* write them (CustomRoleManager in app/models/roles.py, the chart routes  *)
(* in app/api/custom_role_routes.py, the KPI routes in                     *)
(* app/api/kpi_routes.py, the LLM wrappers in services/gemini_service.py). *)
(*                                                                         *)
(* One role is modelled.  SQL text is abstracted to a handful of statement *)
(* classes whose effect on the store is given by Exec; LLM answers are     *)
(* drawn from small sets of JSON shapes.                                   *)
(***************************************************************************)
EXTENDS Integers, Sequences, FiniteSets, TLC

(***************************************************************************)
(* Bounds of the model.                                                    *)
(***************************************************************************)
\* Longest KPI or chart candidate list an LLM answer carries.
MaxCands == 2
\* Longest KPI list the KPI routes may grow the plan to.
MaxKpis == 2
\* Rows a source table has at most, rows of one batch of INSERTs (500 in the
\* code, scaled down with the tables) and rows the store holds per table.
MaxSrc == 2
BatchSize == 2
MaxStored == 4
\* Rows the sampling query of infer_column_type returns at most (LIMIT 10 in
\* the code).
MaxSample == 2

(***************************************************************************)
(* SQL statement classes.  The role store holds one imported data table;   *)
(* tbl is "absent" (no data table), "empty" (no rows) or "rows".           *)
(*   "agg"   SELECT COUNT(1) FROM "t"           one row whenever t exists  *)
(*   "rows"  SELECT ... FROM "t" GROUP BY ...   one row per group of t     *)
(*   "none"  SELECT ... FROM "t" WHERE <false>  executes, zero rows        *)
(*   "bad"   SELECT "no_such_column" FROM "t"   raises OperationalError    *)
(*   "del"   DELETE FROM "t"                    executes, zero rows, and   *)
(*                                              empties t in the open      *)
(*                                              transaction                *)
(***************************************************************************)
Sql == {"agg", "rows", "none", "bad", "del"}

\* cursor.execute(sql) followed by fetchone()/fetchall() on a connection whose
\* view of the data table is t: whether it raised, whether a row came back,
\* and the connection's view of the table afterwards.
Exec(sql, t) ==
    IF t = "absent" \/ sql = "bad" \/ sql \notin Sql
    THEN [err |-> TRUE,  some |-> FALSE, tbl |-> t]
    ELSE IF sql = "agg"  THEN [err |-> FALSE, some |-> TRUE,  tbl |-> t]
    ELSE IF sql = "rows" THEN [err |-> FALSE, some |-> (t = "rows"), tbl |-> t]
    ELSE IF sql = "none" THEN [err |-> FALSE, some |-> FALSE, tbl |-> t]
    ELSE [err |-> FALSE, some |-> FALSE, tbl |-> "empty"]

(***************************************************************************)
(* JSON values.  A candidate is a JSON object ("dict") or any other JSON   *)
(* value ("junk": a string, a number).  id "" stands for a missing id.     *)
(***************************************************************************)
KpiIds   == {"k1", "k2"}
ChartIds == {"a", "b"}

Kpi(id, f, table) == [kind |-> "dict", id |-> id, formula |-> f, table |-> table]
Chart(id, title, q) == [kind |-> "dict", id |-> id, title |-> title, query_sql |-> q]
JunkChart == [kind |-> "junk", id |-> "", title |-> "", query_sql |-> ""]

\* The KPI and chart objects an LLM answer is built from.
LLMKpis   == {Kpi("k1", "agg", ""), Kpi("k2", "bad", "")}
LLMCharts == {Chart("a", "llm", "rows"), Chart("b", "llm", "rows"),
              Chart("a", "llm", "none"), Chart("b", "llm", "bad"),
              Chart("b", "llm", "del"), JunkChart}

SeqsUpTo(S, n) == UNION {[1..k -> S] : k \in 0..n}

\* An answer of the model: the call failed or its text was not JSON
\* ("error"), or it parsed to an object holding the list under the expected
\* key ("dict"), an object without that key ("nokey"), a bare list ("list"),
\* or a JSON scalar ("scalar").
Answers(S) ==
    {[shape |-> s, items |-> <<>>] : s \in {"error", "nokey", "scalar"}}
    \cup {[shape |-> s, items |-> l] : s \in {"dict", "list"}, l \in SeqsUpTo(S, MaxCands)}

\* The data-analysis context analyze_role serialises: an object with the keys
\* role_name, schema_descriptions and tables, none of them kpis, charts or
\* key_concepts.
context_json == [shape |-> "nokey", items |-> <<>>]

\* _generate_json_from_model(prompt_text, default_json): the parsed answer, or
\* json.loads(default_json) when the call or the parse raised.
generate_json_from_model(answer, default_json) ==
    IF answer.shape = "error" THEN default_json ELSE answer

\* response.get(key, []) if isinstance(response, dict) else response
ListOf(response) ==
    IF response.shape \in {"dict", "list"}
    THEN [iter |-> TRUE, items |-> response.items]
    ELSE IF response.shape = "nokey" THEN [iter |-> TRUE, items |-> <<>>]
    ELSE [iter |-> FALSE, items |-> <<>>]

\* concepts.get('key_concepts', []) if isinstance(concepts, dict) else []
ConceptsOf(response) ==
    IF response.shape = "dict" THEN response.items ELSE <<>>

(***************************************************************************)
(* The plan file <role>.plan.json.                                         *)
(***************************************************************************)
NoPlan == [exists |-> FALSE, kpis |-> <<>>, charts |-> <<>>, insights |-> <<>>]
Plan(k, c, i) == [exists |-> TRUE, kpis |-> k, charts |-> c, insights |-> i]

\* chart_insights rows, keyed by the UNIQUE chart_id: "absent" or "stored".
NoInsights == [c \in ChartIds |-> "absent"]

\* generate_chart_insights(title, rows, type) for a non-empty result: the
\* parsed bullet list ("text"), the one-element error list its except branch
\* returns ("error"), or an exception from json.dumps(sample_data), which is
\* outside its try ("raise").
InsightOutcomes == {"text", "error", "raise"}

\* INSERT INTO chart_insights ... ON CONFLICT(chart_id) DO UPDATE
Upsert(ins, id) == [ins EXCEPT ![id] = "stored"]

\* Faulty variant of KpiStep: the candidate is kept whatever its formula did.
KpiStepKeepAll(vk, kpi, r) == Append(vk, [kpi EXCEPT !.table = "t"])

\* The body of the KPI loop: the list after a candidate whose formula gave r.
KpiStep(vk, kpi, r) ==
    IF r.err THEN vk ELSE Append(vk, [kpi EXCEPT !.table = "t"])

\* Faulty variant of ChartKept: the test for an empty result is missing.
ChartKeptUnchecked(r) == ~r.err

\* The chart loop's test: the query ran and chart_data is not empty.
ChartKept(r) == ~r.err /\ r.some

\* Faulty variant of ChartStep: the chart is appended after its insights were
\* generated and stored, so an exception there loses it.
ChartStepAfterInsights(vc, chart, insights) ==
    IF insights = "raise" THEN vc ELSE Append(vc, chart)

\* Line 390: the chart is appended before generate_chart_insights is called,
\* whatever that call then does.
ChartStep(vc, chart, insights) == Append(vc, chart)

\* "if insights and chart.get('id')", reached only when
\* generate_chart_insights returned.
StoresInsights(insights, chart) == insights # "raise" /\ chart.id # ""

VARIABLES
    dbExists,          \* the role's SQLite file exists
    tbl,               \* committed state of the imported data table
    chart_insights,    \* committed chart_insights rows
    plan,              \* the plan file
    pc,                \* position of the request being served
    concepts, kpis, charts,             \* analyze_role: parsed LLM answers
    i,                                  \* analyze_role: loop position
    validated_kpis, validated_charts,   \* analyze_role: lists being built
    txTbl, txIns,      \* analyze_role: its connection's view of the store
    req, resp,         \* the request being served or last served, its result
    planBefore,        \* the plan file when that request arrived
    tblBefore,         \* the data table when that request arrived
    insBefore,         \* chart_insights when that request arrived
    llmFailed,         \* an LLM call of that request raised or gave no JSON
    failedAt,          \* chart candidates (by position) whose insight
                       \* generation or storing failed
    written            \* chart ids it upserted into chart_insights

\* The chart_insights table row by row, for the claims about its records.
VARIABLES
    ins_schema,        \* "absent", "v1" (as initialize_role_db creates it) or
                       \* "v2" (with the chart_title column analyze_role adds)
    ins_rows,          \* its committed rows, in rowid order
    ins_req,           \* the last request that addressed the table
    ins_before         \* ins_rows when that request arrived

insightvars == <<ins_schema, ins_rows, ins_req, ins_before>>

\* import_role_data: the role's config file, the imported tables of its store
\* and the position of a call in flight.
VARIABLES
    imp_cfg,           \* the config file <role>.json
    imp_db,            \* table name -> [exists, rows] in <role>.db
    imp_pc,            \* "idle" or "loop"
    imp_k,             \* index into bq_tables of the table the loop is at
    imp_total,         \* total_records_imported
    imp_sd,            \* tables with an entry in the local schema_descriptions
    imp_log,           \* what the call did to the source and the store, in order
    imp_resp,          \* what the last call returned
    imp_cfg0,          \* imp_cfg when the call started
    imp_db0,           \* imp_db when the call started
    imp_src,           \* table name -> the rows the source returned to the call
    imp_failed,        \* whether some call since create_role failed at a table
    imp_inflight       \* rows the executemany that raised had inserted

importvars == <<imp_cfg, imp_db, imp_pc, imp_k, imp_total, imp_sd, imp_log,
                imp_resp, imp_cfg0, imp_db0, imp_src, imp_failed,
                imp_inflight>>

\* Two roles side by side: the files and stores of the role directory, by the
\* key each path is built from.
VARIABLES
    rl_names,          \* the two role names the requests are for
    rl_cfg,            \* file key -> the config file <key>.json
    rl_plan,           \* file key -> the plan file <key>.plan.json
    rl_sa,             \* file key -> the credential file <key>.sa.json
    rl_db,             \* store key -> the store <key>.db
    rl_op,             \* the last operation: its name, its role, its result
    rl_got,            \* what it returned, when it was get_role_config
    rl_cfg0,           \* the four maps when that operation started
    rl_plan0,
    rl_sa0,
    rl_db0

rolevars == <<rl_names, rl_cfg, rl_plan, rl_sa, rl_db, rl_op, rl_got,
              rl_cfg0, rl_plan0, rl_sa0, rl_db0>>

\* infer_column_type: the last two calls.
VARIABLES
    inf_prev,          \* the call before the last: its column, what the cursor
                       \* did, what the rows alone say, and its result
    inf_last           \* the last call, likewise

infervars == <<inf_prev, inf_last>>

\* infer_column_type on a column without keyword: the column's stored values
\* and what the last call made of them.
VARIABLES
    smp_table,         \* value -> the number of rows of the column that hold it
    smp_result         \* what infer_column_type returned for the column as it
                       \* is, "none" when it was not called since the last insert

samplevars == <<smp_table, smp_result>>

\* Requests for one role served by two threads of the server at once.
VARIABLES
    cc_plan,           \* the plan file: whether it exists, its chart and KPI ids
    cc_ins,            \* chart id -> the request whose insights the committed
                       \* chart_insights record holds, 0 when there is none
    cc_proc,           \* thread -> the request it serves and where it is in it
    cc_base            \* cc_plan and cc_ins when both threads were last idle

concvars == <<cc_plan, cc_ins, cc_proc, cc_base>>

\* The variables of the plan pipeline, and those of the other parts.
pipeline == <<dbExists, tbl, chart_insights, plan, pc, concepts, kpis, charts, i,
              validated_kpis, validated_charts, txTbl, txIns, req, resp,
              planBefore, tblBefore, insBefore, llmFailed, failedAt, written>>
extra == <<insightvars, importvars, rolevars, infervars, samplevars, concvars>>
notInsights == <<pipeline, importvars, rolevars, infervars, samplevars, concvars>>
notImport == <<pipeline, insightvars, rolevars, infervars, samplevars, concvars>>
notRoles == <<pipeline, insightvars, importvars, infervars, samplevars, concvars>>
notInfer == <<pipeline, insightvars, importvars, rolevars, samplevars, concvars>>
notSample == <<pipeline, insightvars, importvars, rolevars, infervars, concvars>>
notConc == <<pipeline, insightvars, importvars, rolevars, infervars, samplevars>>

vars == <<pipeline, extra>>

store  == <<dbExists, tbl, chart_insights>>
locals == <<concepts, kpis, charts, i, validated_kpis, validated_charts, txTbl, txIns>>
before == <<planBefore, tblBefore, insBefore>>
ghost  == <<llmFailed, failedAt, written>>

NoList == [iter |-> TRUE, items |-> <<>>]
Idle   == [op |-> "none", id |-> "", body |-> ""]
NoResp == [ok |-> TRUE, status |-> 0, error |-> ""]
Resp(ok, status, error) == [ok |-> ok, status |-> status, error |-> error]

(***************************************************************************)
(* Role names and the keys of their paths.  A name is the sequence of its  *)
(* characters.  The store path is built by get_role_db_path; the paths of  *)
(* the config, plan and credential files are built by replace(' ', '_')    *)
(* alone.                                                                  *)
(***************************************************************************)
RoleNames == {<<"a">>, <<"a", "!">>, <<"!", " ", "a">>, <<"!", "_", "a">>,
              <<"b">>}
RolePairs == {p \in RoleNames \X RoleNames : p[1] # p[2]}

\* str.isalnum for the characters of RoleNames.
IsAlnum(ch) == ch \in {"a", "b"}
Kept(ch) == IsAlnum(ch) \/ ch \in {"-", "_", " "}

\* str.strip, one end at a time.
RECURSIVE LStrip(_)
LStrip(s) == IF s # <<>> /\ Head(s) = " " THEN LStrip(Tail(s)) ELSE s
RECURSIVE RStrip(_)
RStrip(s) ==
    IF s # <<>> /\ s[Len(s)] = " " THEN RStrip(SubSeq(s, 1, Len(s) - 1)) ELSE s

\* str.replace(" ", "_").
ReplaceSpaces(s) == [k \in 1..Len(s) |-> IF s[k] = " " THEN "_" ELSE s[k]]

\* The stem of the store path.
get_role_db_path(role_name) ==
    ReplaceSpaces(RStrip(LStrip(SelectSeq(role_name, Kept))))

\* The stem of the config, plan and credential paths.
FileKey(role_name) == ReplaceSpaces(role_name)

FileKeys == {FileKey(n) : n \in RoleNames}
DbKeys == {get_role_db_path(n) : n \in RoleNames}

\* A file or store that is not there, and the contents the operations write.
NoFile == [exists |-> FALSE]
NoStore == [exists |-> FALSE, imported |-> FALSE, insights |-> FALSE]
ConfigFile(role_name, total) ==
    [exists |-> TRUE, role_name |-> role_name, total_records |-> total]
PlanFile(cs) == [exists |-> TRUE, charts |-> cs]
SaFile(role_name) == [exists |-> TRUE, of |-> role_name]
RoleChartIds == {"c1"}
NoOp == [op |-> "none", who |-> 1, ok |-> TRUE]
RoleOp(op, who, ok) == [op |-> op, who |-> who, ok |-> ok]

\* The threads of the server, the ids their requests name, the plan file
\* before the first analyze_role and a thread that serves nothing.
Threads == {1, 2}
CcChartIds == {"c1", "c2"}
CcKpiIds == {"k1"}
NoPlanFile == [exists |-> FALSE, charts |-> {}, kpis |-> {}]
IdleThread == [op |-> "none", arg |-> {}, pc |-> "idle", loaded |-> NoPlanFile,
               ok |-> FALSE]

\* The values a column without keyword can hold.
TableValues == {"2024-01-05", "true", "1", "42", "3.5", "abc"}

\* A call of infer_column_type that was never made.
NoCall == [column |-> <<>>, raises |-> FALSE, sampled |-> 0, by_data |-> "none",
           result |-> "none"]

\* The tables a role can name, the config file before create_role and a table
\* the store does not have.
TableNames == {"A", "B"}
NoConfig == [exists |-> FALSE, bq_tables |-> <<>>, total_records |-> 0,
             schema_descriptions |-> {}]
NoTable == [exists |-> FALSE, rows |-> <<>>]
ImpResp(ok, error, table) == [ok |-> ok, error |-> error, table |-> table]
NoImpResp == ImpResp(TRUE, "none", "")

InitBase ==
    /\ dbExists = FALSE
    /\ tbl = "absent"
    /\ chart_insights = NoInsights
    /\ plan = NoPlan
    /\ pc = "idle"
    /\ concepts = <<>>
    /\ kpis = NoList
    /\ charts = NoList
    /\ i = 1
    /\ validated_kpis = <<>>
    /\ validated_charts = <<>>
    /\ txTbl = "absent"
    /\ txIns = NoInsights
    /\ req = Idle
    /\ resp = NoResp
    /\ planBefore = NoPlan
    /\ tblBefore = "absent"
    /\ insBefore = NoInsights
    /\ llmFailed = FALSE
    /\ failedAt = {}
    /\ written = {}
    /\ ins_schema = "absent"
    /\ ins_rows = <<>>
    /\ ins_req = [op |-> "none", writes |-> <<>>, committed |-> FALSE]
    /\ ins_before = <<>>
    /\ imp_cfg = NoConfig
    /\ imp_db = [t \in TableNames |-> NoTable]
    /\ imp_pc = "idle"
    /\ imp_k = 1
    /\ imp_total = 0
    /\ imp_sd = {}
    /\ imp_log = <<>>
    /\ imp_resp = NoImpResp
    /\ imp_cfg0 = NoConfig
    /\ imp_db0 = [t \in TableNames |-> NoTable]
    /\ imp_src = [t \in TableNames |-> <<>>]
    /\ imp_failed = FALSE
    /\ imp_inflight = 0
    /\ rl_cfg = [k \in FileKeys |-> NoFile]
    /\ rl_plan = [k \in FileKeys |-> NoFile]
    /\ rl_sa = [k \in FileKeys |-> NoFile]
    /\ rl_db = [k \in DbKeys |-> NoStore]
    /\ rl_op = NoOp
    /\ rl_got = NoFile
    /\ rl_cfg0 = [k \in FileKeys |-> NoFile]
    /\ rl_plan0 = [k \in FileKeys |-> NoFile]
    /\ rl_sa0 = [k \in FileKeys |-> NoFile]
    /\ rl_db0 = [k \in DbKeys |-> NoStore]
    /\ inf_prev = NoCall
    /\ inf_last = NoCall
    /\ smp_table = [v \in TableValues |-> 0]
    /\ smp_result = "none"
    /\ cc_plan = NoPlanFile
    /\ cc_ins = [c \in CcChartIds |-> 0]
    /\ cc_proc = [p \in Threads |-> IdleThread]
    /\ cc_base = [plan |-> NoPlanFile, ins |-> [c \in CcChartIds |-> 0]]

\* The state after construction.  The requests of the plan pipeline, of the
\* insights table, of the import and of infer_column_type are for one role;
\* those of the role directory are for any two.
Init == InitBase /\ rl_names = <<<<"a">>, <<"b">>>>
InitRoles == InitBase /\ rl_names \in RolePairs

\* What every request does on arrival: the bookkeeping of the last one is
\* dropped and the state it finds is recorded.
Arrive(r) ==
    /\ pc = "idle"
    /\ UNCHANGED extra
    /\ req' = r
    /\ planBefore' = plan
    /\ tblBefore' = tbl
    /\ insBefore' = chart_insights
    /\ llmFailed' = FALSE
    /\ failedAt' = {}
    /\ written' = {}
    /\ concepts' = <<>>
    /\ kpis' = NoList
    /\ charts' = NoList
    /\ i' = 1
    /\ validated_kpis' = <<>>
    /\ validated_charts' = <<>>
    /\ txTbl' = "absent"
    /\ txIns' = NoInsights

(***************************************************************************)
(* create_role and import_role_data, as far as the plan pipeline sees      *)
(* them: the store comes to exist, and the data table gains the rows of a  *)
(* non-empty source file.                                                  *)
(***************************************************************************)
create_role ==
    /\ Arrive([op |-> "create_role", id |-> "", body |-> ""])
    /\ dbExists' = TRUE
    /\ resp' = Resp(TRUE, 200, "")
    /\ UNCHANGED <<tbl, chart_insights, plan, pc>>

import_role_data ==
    /\ Arrive([op |-> "import_role_data", id |-> "", body |-> ""])
    /\ dbExists
    /\ tbl' = "rows"
    /\ resp' = Resp(TRUE, 200, "")
    /\ UNCHANGED <<dbExists, chart_insights, plan, pc>>

(***************************************************************************)
(* CustomRoleManager.analyze_role                                          *)
(***************************************************************************)
\* Lines 265-328: the early returns, the connection, the context.
analyze_start ==
    /\ Arrive([op |-> "analyze_role", id |-> "", body |-> ""])
    /\ IF ~dbExists
       THEN /\ resp' = Resp(FALSE, 200, "Role DB not found")
            /\ UNCHANGED pc
       ELSE IF tbl = "absent"
       THEN /\ resp' = Resp(FALSE, 200, "No data tables found in database")
            /\ UNCHANGED pc
       ELSE /\ pc' = "concepts"
            /\ resp' = NoResp
    /\ UNCHANGED <<store, plan>>

\* Line 335.
analyze_concepts ==
    /\ pc = "concepts"
    /\ UNCHANGED extra
    /\ \E a \in Answers({"c1"}) :
          /\ a.shape \in {"error", "dict"}
          /\ Len(a.items) = IF a.shape = "dict" THEN 1 ELSE 0
          /\ concepts' = ConceptsOf(generate_json_from_model(a, context_json))
          /\ llmFailed' = (llmFailed \/ a.shape = "error")
    /\ pc' = "kpis"
    /\ txTbl' = tbl
    /\ txIns' = chart_insights
    /\ UNCHANGED <<store, plan, kpis, charts, i, validated_kpis, validated_charts,
                   req, resp, before, failedAt, written>>

\* Lines 352-353.
analyze_kpis(S) ==
    /\ pc = "kpis"
    /\ UNCHANGED extra
    /\ \E a \in Answers(S) :
          /\ kpis' = ListOf(generate_json_from_model(a, context_json))
          /\ llmFailed' = (llmFailed \/ a.shape = "error")
    /\ pc' = "charts"
    /\ UNCHANGED <<store, plan, concepts, charts, i, validated_kpis, validated_charts,
                   txTbl, txIns, req, resp, before, failedAt, written>>

\* Lines 370-371.
analyze_charts(S) ==
    /\ pc = "charts"
    /\ UNCHANGED extra
    /\ \E a \in Answers(S) :
          /\ charts' = ListOf(generate_json_from_model(a, context_json))
          /\ llmFailed' = (llmFailed \/ a.shape = "error")
    /\ pc' = "validate_kpis"
    /\ i' = 1
    /\ UNCHANGED <<store, plan, concepts, kpis, validated_kpis, validated_charts,
                   txTbl, txIns, req, resp, before, failedAt, written>>

\* Lines 409-412: the outer except and the finally; closing the connection
\* discards what it had not committed.
analyze_raise(msg) ==
    /\ pc' = "idle"
    /\ UNCHANGED extra
    /\ resp' = Resp(FALSE, 200, msg)
    /\ UNCHANGED <<store, plan, locals, req, before, ghost>>

\* Lines 374-382, one pass of the loop.  A candidate that is no object fails
\* kpi['formula'] with TypeError, and the handler's own kpi.get('title') then
\* raises AttributeError out of the loop.
validate_kpi ==
    /\ pc = "validate_kpis"
    /\ UNCHANGED extra
    /\ IF ~kpis.iter
       THEN analyze_raise("Failed during analysis generation")
       ELSE IF i > Len(kpis.items)
       THEN /\ pc' = "validate_charts"
            /\ i' = 1
            /\ UNCHANGED <<store, plan, concepts, kpis, charts, validated_kpis,
                           validated_charts, txTbl, txIns, req, resp, before, ghost>>
       ELSE LET kpi == kpis.items[i]
                r   == Exec(kpi.formula, txTbl)
            IN IF kpi.kind # "dict"
               THEN analyze_raise("Failed during analysis generation")
               ELSE /\ txTbl' = r.tbl
                    /\ validated_kpis' = KpiStep(validated_kpis, kpi, r)
                    /\ i' = i + 1
                    /\ UNCHANGED <<store, plan, pc, concepts, kpis, charts,
                                   validated_charts, txIns, req, resp, before, ghost>>

\* Lines 384-399, one pass of the loop.
validate_chart ==
    /\ pc = "validate_charts"
    /\ UNCHANGED extra
    /\ IF ~charts.iter
       THEN analyze_raise("Failed during analysis generation")
       ELSE IF i > Len(charts.items)
       THEN /\ pc' = "finalize"
            /\ UNCHANGED <<store, plan, concepts, kpis, charts, i, validated_kpis,
                           validated_charts, txTbl, txIns, req, resp, before, ghost>>
       ELSE LET chart == charts.items[i]
                r     == Exec(chart.query_sql, txTbl)
            IN IF chart.kind # "dict"
               THEN analyze_raise("Failed during analysis generation")
               ELSE /\ txTbl' = r.tbl
                    /\ i' = i + 1
                    /\ IF ~ChartKept(r)
                       THEN UNCHANGED <<validated_charts, txIns, written, failedAt>>
                       ELSE \E insights \in InsightOutcomes :
                                /\ validated_charts' =
                                      ChartStep(validated_charts, chart, insights)
                                /\ failedAt' = IF insights = "text" THEN failedAt
                                               ELSE failedAt \cup {i}
                                /\ IF StoresInsights(insights, chart)
                                   THEN /\ txIns' = Upsert(txIns, chart.id)
                                        /\ written' = written \cup {chart.id}
                                   ELSE UNCHANGED <<txIns, written>>
                    /\ UNCHANGED <<store, plan, pc, concepts, kpis, charts,
                                   validated_kpis, req, resp, before, llmFailed>>

\* Faulty variant of final_plan: the new lists are merged into the old plan.
final_plan_merged ==
    Plan(plan.kpis \o validated_kpis, plan.charts \o validated_charts, concepts)

\* Lines 401-406.
final_plan == Plan(validated_kpis, validated_charts, concepts)

\* Faulty variant of analyze_commit: the plan file is written here as well.
analyze_commit_saving ==
    /\ pc = "finalize"
    /\ UNCHANGED extra
    /\ tbl' = txTbl
    /\ chart_insights' = txIns
    /\ plan' = final_plan
    /\ pc' = "save"
    /\ UNCHANGED <<dbExists, locals, req, resp, before, ghost>>

\* Line 407 and the finally: the connection's writes are committed.
analyze_commit ==
    /\ pc = "finalize"
    /\ UNCHANGED extra
    /\ tbl' = txTbl
    /\ chart_insights' = txIns
    /\ pc' = "save"
    /\ UNCHANGED <<dbExists, plan, locals, req, resp, before, ghost>>

\* Faulty variant of analyze_save: a plan that kept nothing is an error and is
\* not written.
analyze_save_unless_empty ==
    /\ pc = "save"
    /\ UNCHANGED extra
    /\ IF validated_kpis = <<>> /\ validated_charts = <<>>
       THEN /\ resp' = Resp(FALSE, 200, "No valid KPIs or charts")
            /\ UNCHANGED plan
       ELSE /\ plan' = final_plan
            /\ resp' = Resp(TRUE, 200, "")
    /\ pc' = "idle"
    /\ UNCHANGED <<store, locals, req, before, ghost>>

\* Lines 414-418.
analyze_save ==
    /\ pc = "save"
    /\ UNCHANGED extra
    /\ plan' = final_plan
    /\ resp' = Resp(TRUE, 200, "")
    /\ pc' = "idle"
    /\ UNCHANGED <<store, locals, req, before, ghost>>

analyze_role(K, C) ==
    \/ analyze_start
    \/ analyze_concepts
    \/ analyze_kpis(K)
    \/ analyze_charts(C)
    \/ validate_kpi
    \/ validate_chart
    \/ analyze_commit
    \/ analyze_save

(***************************************************************************)
(* api_custom_role_delete_chart                                            *)
(***************************************************************************)
\* Faulty variant of RemoveChart: everything from the first match on is lost.
RemoveChartAndRest(cs, id) ==
    IF \E k \in 1..Len(cs) : cs[k].id = id
    THEN SubSeq(cs, 1, (CHOOSE k \in 1..Len(cs) :
                          cs[k].id = id /\ \A j \in 1..(k - 1) : cs[j].id # id) - 1)
    ELSE cs

\* Line 580: [chart for chart in charts if chart.get("id") != chart_id]
RemoveChart(cs, id) == SelectSeq(cs, LAMBDA c : c.id # id)

delete_chart ==
    \E chart_id \in ChartIds \cup {""} :
        /\ Arrive([op |-> "delete_chart", id |-> chart_id, body |-> ""])
        /\ IF chart_id = ""
           THEN /\ resp' = Resp(FALSE, 400, "Missing role_name or chart_id")
                /\ UNCHANGED plan
           ELSE IF ~plan.exists
           THEN /\ resp' = Resp(FALSE, 404, "Role plan not found")
                /\ UNCHANGED plan
           ELSE IF Len(RemoveChart(plan.charts, chart_id)) = Len(plan.charts)
           THEN /\ resp' = Resp(FALSE, 404, "Chart not found")
                /\ UNCHANGED plan
           ELSE /\ plan' = [plan EXCEPT !.charts = RemoveChart(plan.charts, chart_id)]
                /\ resp' = Resp(TRUE, 200, "")
        /\ UNCHANGED <<store, pc>>

(***************************************************************************)
(* api_custom_role_create_visualization                                    *)
(***************************************************************************)
\* The names bound in the module namespace of custom_role_routes.py (lines
\* 7-14).  _generate_json_from_model and generate_chart_insights are imported
\* at line 165 inside api_custom_role_metrics, which binds them in that
\* function's scope only.
RouteGlobals == {"Blueprint", "request", "jsonify", "session",
                 "CustomRoleManager", "sqlite3", "json", "logging", "Path",
                 "custom_role_bp"}

Descriptions == {"A"}

\* Lines 474-476 on the descriptions of the model: lower-cased, blanks and
\* hyphens to underscores, other punctuation dropped.
DescId(description) == IF description = "A" THEN "a" ELSE ""

\* Line 471: chart_id.replace("chart_", "")
StripChartPrefix(chart_id) ==
    IF chart_id = "chart_a" THEN "a"
    ELSE IF chart_id = "chart_b" THEN "b" ELSE chart_id

\* Lines 486-491: every chart carrying the id is replaced, or the chart is
\* appended.
UpsertChart(cs, chart_obj) ==
    IF \E k \in 1..Len(cs) : cs[k].id = chart_obj.id
    THEN [k \in 1..Len(cs) |-> IF cs[k].id # chart_obj.id THEN cs[k] ELSE chart_obj]
    ELSE Append(cs, chart_obj)

create_visualization ==
    \E description \in Descriptions \cup {""}, chart_id \in {"", "chart_a"} :
        /\ Arrive([op |-> "create_visualization", id |-> chart_id,
                   body |-> description])
        /\ IF description = ""
           THEN /\ resp' = Resp(FALSE, 400, "Missing role_name or description")
                /\ UNCHANGED <<plan, chart_insights>>
           ELSE IF ~plan.exists
           THEN /\ resp' = Resp(FALSE, 404, "Role plan not found")
                /\ UNCHANGED <<plan, chart_insights>>
           ELSE IF ~dbExists
           THEN /\ resp' = Resp(FALSE, 404, "Role database not found")
                /\ UNCHANGED <<plan, chart_insights>>
           ELSE IF "_generate_json_from_model" \notin RouteGlobals
           THEN \* line 423 raises NameError into the except of line 542
                /\ resp' = Resp(FALSE, 500, "name '_generate_json_from_model' is not defined")
                /\ UNCHANGED <<plan, chart_insights>>
           ELSE \E sql_query \in Sql, generate_insights \in BOOLEAN,
                   insights \in InsightOutcomes \ {"raise"} :
                LET id == IF chart_id # "" THEN StripChartPrefix(chart_id)
                          ELSE DescId(description)
                    chart_obj == Chart(id, description, sql_query)
                    r == Exec(sql_query, tbl)
                IN IF r.err
                   THEN /\ resp' = Resp(FALSE, 400, "Invalid SQL query")
                        /\ UNCHANGED <<plan, chart_insights>>
                   ELSE IF ~r.some
                   THEN /\ resp' = Resp(FALSE, 400, "Query returned no results")
                        /\ UNCHANGED <<plan, chart_insights>>
                   ELSE /\ plan' = [plan EXCEPT
                                       !.charts = UpsertChart(plan.charts, chart_obj)]
                        /\ chart_insights' =
                              IF generate_insights
                                 /\ "generate_chart_insights" \in RouteGlobals
                              THEN Upsert(chart_insights, id)
                              ELSE chart_insights
                        /\ resp' = Resp(TRUE, 200, "")
        /\ UNCHANGED <<dbExists, tbl, pc>>

(***************************************************************************)
(* The KPI routes of kpi_routes.py.  load_role_plan answers a plan with    *)
(* three empty lists when the file is missing, and save_role_plan writes   *)
(* the file.                                                               *)
(***************************************************************************)
load_role_plan == IF plan.exists THEN plan ELSE Plan(<<>>, <<>>, <<>>)

\* Line 192: [k for k in plan.get("kpis", []) if k["id"] != kpi_id]
RemoveKpi(ks, id) == SelectSeq(ks, LAMBDA k : k.id # id)

\* Line 153: the position of the first KPI carrying the id, 0 for None.
KpiIndex(ks, id) ==
    IF \E k \in 1..Len(ks) : ks[k].id = id
    THEN CHOOSE k \in 1..Len(ks) :
            ks[k].id = id /\ \A j \in 1..(k - 1) : ks[j].id # id
    ELSE 0

create_kpi ==
    \E id \in KpiIds, formula \in {"agg", "bad"} :
        /\ Arrive([op |-> "create_kpi", id |-> id, body |-> formula])
        /\ Len(load_role_plan.kpis) < MaxKpis
        /\ IF KpiIndex(load_role_plan.kpis, id) # 0
           THEN /\ resp' = Resp(FALSE, 400, "KPI with this ID already exists")
                /\ UNCHANGED plan
           ELSE /\ plan' = [load_role_plan EXCEPT
                               !.kpis = Append(@, Kpi(id, formula, "t"))]
                /\ resp' = Resp(TRUE, 201, "")
        /\ UNCHANGED <<store, pc>>

update_kpi ==
    \E kpi_id \in KpiIds, formula \in {"agg", "bad"} :
        /\ Arrive([op |-> "update_kpi", id |-> kpi_id, body |-> formula])
        /\ IF KpiIndex(load_role_plan.kpis, kpi_id) = 0
           THEN /\ resp' = Resp(FALSE, 404, "KPI not found")
                /\ UNCHANGED plan
           ELSE /\ plan' = [load_role_plan EXCEPT
                               !.kpis[KpiIndex(load_role_plan.kpis, kpi_id)].formula = formula]
                /\ resp' = Resp(TRUE, 200, "")
        /\ UNCHANGED <<store, pc>>

delete_kpi ==
    \E kpi_id \in KpiIds :
        /\ Arrive([op |-> "delete_kpi", id |-> kpi_id, body |-> ""])
        /\ IF Len(RemoveKpi(load_role_plan.kpis, kpi_id)) = Len(load_role_plan.kpis)
           THEN /\ resp' = Resp(FALSE, 404, "KPI not found")
                /\ UNCHANGED plan
           ELSE /\ plan' = [load_role_plan EXCEPT !.kpis = RemoveKpi(@, kpi_id)]
                /\ resp' = Resp(TRUE, 200, "")
        /\ UNCHANGED <<store, pc>>

(***************************************************************************)
(* Specifications.  Spec is the plan pipeline with the chart routes, over  *)
(* the full set of LLM answers.  SpecAll adds the KPI routes and draws the *)
(* LLM answers from one valid KPI and one valid chart.                     *)
(***************************************************************************)
Next ==
    \/ create_role
    \/ import_role_data
    \/ analyze_role(LLMKpis, LLMCharts)
    \/ delete_chart
    \/ create_visualization

Spec == Init /\ [][Next]_vars

FewKpis   == {Kpi("k1", "agg", "")}
FewCharts == {Chart("a", "llm", "rows")}

NextAll ==
    \/ create_role
    \/ import_role_data
    \/ analyze_role(FewKpis, FewCharts)
    \/ delete_chart
    \/ create_visualization
    \/ create_kpi
    \/ update_kpi
    \/ delete_kpi

SpecAll == Init /\ [][NextAll]_vars

TypeOK ==
    /\ dbExists \in BOOLEAN
    /\ tbl \in {"absent", "empty", "rows"}
    /\ pc \in {"idle", "concepts", "kpis", "charts", "validate_kpis",
               "validate_charts", "finalize", "save"}

(***************************************************************************)
(* What a request's outcome is measured against.  The validation of a call *)
(* is recomputed here from its candidate lists and the store it found.     *)
(***************************************************************************)
\* The request named op has returned.
Returned(op) == pc = "idle" /\ req.op = op

\* An analyze_role call has returned after passing its early returns.
Ran == Returned("analyze_role") /\ tblBefore # "absent"

\* Both candidate lists can be iterated and hold JSON objects only.
WellFormed ==
    /\ kpis.iter
    /\ charts.iter
    /\ \A k \in 1..Len(kpis.items) : kpis.items[k].kind = "dict"
    /\ \A k \in 1..Len(charts.items) : charts.items[k].kind = "dict"

\* The connection's view of the data table after the first n statements.
RECURSIVE ViewAfter(_, _, _)
ViewAfter(sqls, t, n) ==
    IF n = 0 THEN t ELSE Exec(sqls[n], ViewAfter(sqls, t, n - 1)).tbl

\* The members of items at the positions in S, in order.
RECURSIVE Pick(_, _, _)
Pick(items, S, n) ==
    IF n = 0 THEN <<>>
    ELSE IF n \in S THEN Append(Pick(items, S, n - 1), items[n])
    ELSE Pick(items, S, n - 1)

Formulas == [k \in 1..Len(kpis.items) |-> kpis.items[k].formula]
Queries  == [k \in 1..Len(charts.items) |-> charts.items[k].query_sql]

\* What the k-th KPI formula and the k-th chart query give when the call
\* runs them.
KpiResult(k) == Exec(Formulas[k], ViewAfter(Formulas, tblBefore, k - 1))
ChartResult(k) ==
    Exec(Queries[k],
         ViewAfter(Queries, ViewAfter(Formulas, tblBefore, Len(Formulas)), k - 1))

RunsIdx == {k \in 1..Len(kpis.items) : ~KpiResult(k).err}
RowsIdx == {k \in 1..Len(charts.items) :
               ~ChartResult(k).err /\ ChartResult(k).some}
ZeroIdx == {k \in 1..Len(charts.items) :
               ~ChartResult(k).err /\ ~ChartResult(k).some}

ExpectedKpis ==
    LET kept == Pick(kpis.items, RunsIdx, Len(kpis.items))
    IN [k \in 1..Len(kept) |-> [kept[k] EXCEPT !.table = "t"]]
ExpectedCharts == Pick(charts.items, RowsIdx, Len(charts.items))

\* Every formula and query of the plan file runs against the committed store,
\* and every query gives a row.
PlanExecutable ==
    /\ \A k \in 1..Len(plan.kpis) : ~Exec(plan.kpis[k].formula, tbl).err
    /\ \A k \in 1..Len(plan.charts) :
          /\ ~Exec(plan.charts[k].query_sql, tbl).err
          /\ Exec(plan.charts[k].query_sql, tbl).some

(***************************************************************************)
(* C1.  After analyze_role returns ok:true, every KPI formula of the plan  *)
(* it persisted executes without error against the role's store, and every *)
(* chart query of that plan executes without error and returns a row.      *)
(* Violated: a candidate that is a DELETE statement executes, is dropped   *)
(* for its empty result, and is committed with the rest at line 407.       *)
(***************************************************************************)
C1_PersistedPlanExecutes ==
    (Returned("analyze_role") /\ resp.ok) => PlanExecutable

(***************************************************************************)
(* C2.  In every reachable state, after any sequence of analyze, chart and *)
(* KPI operations, every KPI formula and chart query of the persisted plan *)
(* is executable against the role's store and returns at least one row.    *)
(* Violated: create_kpi and update_kpi store the formula they are given.   *)
(***************************************************************************)
C2_PlanAlwaysExecutes ==
    (pc = "idle" /\ plan.exists /\ tbl # "absent") =>
        /\ PlanExecutable
        /\ \A k \in 1..Len(plan.kpis) : Exec(plan.kpis[k].formula, tbl).some

(***************************************************************************)
(* C3.  If an LLM call of analyze_role fails or returns text that is not   *)
(* JSON, the call returns ok:false and the plan persisted before it is     *)
(* left unchanged.  Violated: _generate_json_from_model answers the parsed *)
(* context, which holds no candidates, and an empty plan is written.       *)
(***************************************************************************)
C3_FailedGenerationKeepsPlan ==
    (Ran /\ llmFailed) => (~resp.ok /\ plan = planBefore)

(***************************************************************************)
(* C4.  Within one analyze_role call the plan file is written at most      *)
(* once, and only after every KPI and chart candidate has been validated:  *)
(* in every state before the call returns the file is the one the call     *)
(* found, and once it has returned the file is either that one or the plan *)
(* built from the validated lists with both loops run to their end.        *)
(***************************************************************************)
C4_PlanWrittenOnceAfterValidation ==
    req.op = "analyze_role" =>
        IF pc # "idle"
        THEN /\ plan = planBefore
             /\ pc \in {"finalize", "save"} => i = Len(charts.items) + 1
        ELSE \/ ~resp.ok /\ plan = planBefore
             \/ /\ resp.ok
                /\ i = Len(charts.items) + 1
                /\ Len(validated_kpis) = Cardinality(RunsIdx)
                /\ plan = Plan(validated_kpis, validated_charts, concepts)

C4_Witness ==
    /\ req.op = "analyze_role"
    /\ pc = "save"
    /\ planBefore.exists
    /\ Len(validated_charts) >= 1
    /\ Plan(validated_kpis, validated_charts, concepts) # plan

(***************************************************************************)
(* C5.  After a successful analyze_role call on a role that already has a  *)
(* plan from an earlier call, the persisted plan is exactly the validated  *)
(* plan of the later call: the candidates of that call that passed, in     *)
(* order, and nothing of the plan it found.                                *)
(***************************************************************************)
C5_SecondAnalyzeReplacesPlan ==
    (Ran /\ resp.ok) => plan = Plan(ExpectedKpis, ExpectedCharts, concepts)

C5_Witness ==
    /\ Ran
    /\ resp.ok
    /\ planBefore.exists
    /\ Len(planBefore.charts) = MaxCands
    /\ Len(planBefore.kpis) >= 1
    /\ Len(plan.charts) = 1
    /\ plan.charts[1] # planBefore.charts[1]
    /\ plan.kpis = <<>>

(***************************************************************************)
(* C6.  Every KPI candidate whose formula raises is left out of the final  *)
(* plan and every candidate whose formula executes is kept, annotated with *)
(* its source table; the call returns ok:true whenever the candidate lists *)
(* are lists of JSON objects, whatever the formulas did, so that a query   *)
(* error is never what the caller gets.                                    *)
(***************************************************************************)
C6_KpiErrorsDropped ==
    Ran => /\ resp.ok = WellFormed
           /\ resp.ok => /\ plan.kpis = ExpectedKpis
                         /\ \A k \in 1..Len(plan.kpis) :
                               /\ plan.kpis[k].table = "t"
                               /\ ~Exec(plan.kpis[k].formula, tblBefore).err

C6_Witness ==
    /\ Ran
    /\ resp.ok
    /\ Len(kpis.items) = MaxCands
    /\ KpiResult(1).err
    /\ ~KpiResult(Len(kpis.items)).err
    /\ Len(plan.kpis) = Len(kpis.items) - 1

(***************************************************************************)
(* C19.  If plan generation yields candidates (lists of JSON objects, not  *)
(* both empty) and every KPI formula raises and every chart query raises   *)
(* or returns no row, analyze_role still returns ok:true and the plan it   *)
(* persists has an empty KPI list and an empty chart list.                 *)
(***************************************************************************)
C19_AllDroppedStillOk ==
    (/\ Ran
     /\ WellFormed
     /\ Len(kpis.items) + Len(charts.items) > 0
     /\ RunsIdx = {}
     /\ RowsIdx = {})
    => /\ resp.ok
       /\ plan.exists
       /\ plan.kpis = <<>>
       /\ plan.charts = <<>>

\* A KPI candidate and chart candidates were generated, none survived, and
\* the empty plan replaced one that had a chart.
C19_Witness ==
    /\ Ran
    /\ resp.ok
    /\ Len(kpis.items) > 0
    /\ Len(charts.items) = MaxCands
    /\ RunsIdx = {}
    /\ RowsIdx = {}
    /\ planBefore.charts # <<>>
    /\ plan.kpis = <<>>
    /\ plan.charts = <<>>

C8_InsightFailureKeepsChart ==
    Ran => /\ failedAt \subseteq RowsIdx
           /\ WellFormed => resp.ok
           /\ resp.ok =>
                 /\ Len(plan.charts) = Cardinality(RowsIdx)
                 /\ \A k \in failedAt :
                       plan.charts[Cardinality({j \in RowsIdx : j <= k})]
                           = charts.items[k]

C8_Witness ==
    /\ Ran
    /\ resp.ok
    /\ failedAt = 1..MaxCands
    /\ Len(plan.charts) = MaxCands

(***************************************************************************)
(* C9.  A create_visualization request that carries a chart_id, made on a  *)
(* role with a plan and a store, either is refused for its query (status   *)
(* 400) or leaves exactly one chart with that id in the plan, carrying the *)
(* request's content, without growing a plan that already held the id.     *)
(* Violated: the handler raises NameError at line 423 and answers 500.     *)
(***************************************************************************)
C9_UpsertLeavesOneChart ==
    (/\ Returned("create_visualization")
     /\ req.id # ""
     /\ req.body # ""
     /\ planBefore.exists
     /\ dbExists)
    => \/ resp.status = 400
       \/ /\ resp.ok
          /\ Cardinality({k \in 1..Len(plan.charts) :
                            plan.charts[k].id = StripChartPrefix(req.id)}) = 1
          /\ \A k \in 1..Len(plan.charts) :
                plan.charts[k].id = StripChartPrefix(req.id)
                => plan.charts[k].title = req.body
          /\ (\E k \in 1..Len(planBefore.charts) :
                 planBefore.charts[k].id = StripChartPrefix(req.id))
             => Len(plan.charts) = Len(planBefore.charts)

(***************************************************************************)
(* C10.  Deleting a chart id that is not in the role's plan returns a      *)
(* not-found result (status 404) and leaves the persisted plan as it was;  *)
(* deleting an id that is in the plan removes the charts with that id and  *)
(* leaves the other charts, in order, the KPIs and the insight strings as  *)
(* they were.                                                              *)
(***************************************************************************)
C10_DeleteChartFrame ==
    (Returned("delete_chart") /\ req.id # "") =>
        LET others == {k \in 1..Len(planBefore.charts) :
                          planBefore.charts[k].id # req.id}
        IN IF Cardinality(others) = Len(planBefore.charts)
           THEN /\ ~resp.ok
                /\ resp.status = 404
                /\ plan = planBefore
           ELSE /\ resp.ok
                /\ plan.exists
                /\ plan.charts = Pick(planBefore.charts, others,
                                      Len(planBefore.charts))
                /\ plan.kpis = planBefore.kpis
                /\ plan.insights = planBefore.insights

C10_Witness ==
    /\ Returned("delete_chart")
    /\ resp.ok
    /\ Len(planBefore.charts) = MaxCands
    /\ Len(plan.charts) = 1
    /\ planBefore.charts[1].id = req.id
    /\ Len(plan.kpis) >= 1

(***************************************************************************)
(* C11.  In every reachable state no two charts of the persisted plan have *)
(* the same id, after any sequence of analyze, chart upsert and chart      *)
(* delete operations, whatever ids the LLM proposes.  Violated: the chart  *)
(* loop of analyze_role appends every candidate that returns rows and      *)
(* never compares ids.                                                     *)
(***************************************************************************)
C11_ChartIdsUnique ==
    \A j, k \in 1..Len(plan.charts) :
        j # k => plan.charts[j].id # plan.charts[k].id

(***************************************************************************)
(* The chart_insights table, row by row.  Every statement that creates it  *)
(* declares chart_id UNIQUE, and every statement that writes it is an      *)
(* INSERT ... ON CONFLICT(chart_id) DO UPDATE.                             *)
(***************************************************************************)

Row(id, title, text) ==
    [chart_id |-> id, chart_title |-> title, insights_json |-> text]
\* What analyze_role writes for a chart: its title and the insights generated
\* for it in that call.  A later call writes another title and other insights.
Versions == {<<"t1", "i1">>, <<"t2", "i2">>}
Rows == {Row(id, v[1], v[2]) : id \in ChartIds, v \in Versions}

\* Faulty variant of InsertOnConflict: a plain INSERT into a table whose
\* chart_id is not UNIQUE.
InsertAlways(rows, r) == Append(rows, r)

\* INSERT INTO chart_insights (chart_id, chart_title, insights_json,
\* updated_at) ... ON CONFLICT(chart_id) DO UPDATE SET the three of them.
InsertOnConflict(rows, r) ==
    IF \E k \in 1..Len(rows) : rows[k].chart_id = r.chart_id
    THEN [k \in 1..Len(rows) |->
             IF rows[k].chart_id = r.chart_id THEN r ELSE rows[k]]
    ELSE Append(rows, r)

\* The chart loop of analyze_role, as far as the table sees it: one INSERT
\* per chart whose insights it stores, in candidate order.
RECURSIVE InsertAll(_, _)
InsertAll(rows, ws) ==
    IF ws = <<>> THEN rows
    ELSE InsertAll(InsertOnConflict(rows, Head(ws)), Tail(ws))

InsReq(op, ws, committed) == [op |-> op, writes |-> ws, committed |-> committed]

\* create_role calls initialize_role_db: CREATE TABLE IF NOT EXISTS.
initialize_role_db ==
    /\ ins_schema' = IF ins_schema = "absent" THEN "v1" ELSE ins_schema
    /\ ins_req' = InsReq("initialize_role_db", <<>>, TRUE)
    /\ ins_before' = ins_rows
    /\ UNCHANGED <<ins_rows, notInsights>>

\* analyze_role, as far as the table sees it.  The ALTER TABLE of lines
\* 278-280 is committed at once; the INSERTs of the chart loop are committed
\* at line 407, or lost when the call raises before it.
analyze_role_insights ==
    \E outcome \in {"ok", "raise", "no_tables"}, ws \in SeqsUpTo(Rows, MaxCands) :
        /\ outcome = "no_tables" => ws = <<>>
        /\ ins_before' = ins_rows
        /\ IF ins_schema = "absent"
           THEN /\ ins_req' = InsReq("analyze_role", <<>>, FALSE)
                /\ UNCHANGED <<ins_schema, ins_rows>>
           ELSE /\ ins_schema' = "v2"
                /\ ins_req' = InsReq("analyze_role", ws, outcome = "ok")
                /\ ins_rows' = IF outcome = "ok"
                               THEN InsertAll(ins_rows, ws) ELSE ins_rows
        /\ UNCHANGED notInsights

\* api_generate_chart_insights.  generate_chart_insights is no global of the
\* module, so line 654 raises NameError into the except of line 692.
api_generate_chart_insights ==
    \E r \in Rows, complete \in BOOLEAN :
        /\ ins_before' = ins_rows
        /\ IF ~complete
           THEN /\ ins_req' = InsReq("generate_400", <<>>, FALSE)
                /\ UNCHANGED <<ins_schema, ins_rows>>
           ELSE IF "generate_chart_insights" \notin RouteGlobals
           THEN /\ ins_req' = InsReq("generate_500", <<r>>, FALSE)
                /\ UNCHANGED <<ins_schema, ins_rows>>
           ELSE IF ins_schema = "absent"
           THEN /\ ins_req' = InsReq("generate_404", <<r>>, FALSE)
                /\ UNCHANGED <<ins_schema, ins_rows>>
           ELSE IF ins_schema = "v1"
           THEN \* the table has no column chart_title
                /\ ins_req' = InsReq("generate_500", <<r>>, FALSE)
                /\ UNCHANGED <<ins_schema, ins_rows>>
           ELSE /\ ins_req' = InsReq("generate", <<r>>, TRUE)
                /\ ins_rows' = InsertOnConflict(ins_rows, r)
                /\ UNCHANGED ins_schema
        /\ UNCHANGED notInsights

NextInsights ==
    \/ initialize_role_db
    \/ analyze_role_insights
    \/ api_generate_chart_insights

SpecInsights == Init /\ [][NextInsights]_vars

\* The last write of the request for chart id, and whether it has one.
WritesFor(id) == {k \in 1..Len(ins_req.writes) : ins_req.writes[k].chart_id = id}
LastWriteFor(id) ==
    ins_req.writes[CHOOSE k \in WritesFor(id) : \A j \in WritesFor(id) : j <= k]
RowsFor(rows, id) == {k \in 1..Len(rows) : rows[k].chart_id = id}

(***************************************************************************)
(* C12.  In every reachable state the table holds at most one record per   *)
(* chart id.  A request that commits writes for an id that already had a   *)
(* record leaves that one record, at its place, with the insights and the  *)
(* title of its last write; an id without record gains exactly one; every  *)
(* other record is as it was; a request that commits nothing leaves the    *)
(* table as it was.                                                        *)
(***************************************************************************)
C12_OneRecordPerChartId ==
    /\ \A id \in ChartIds : Cardinality(RowsFor(ins_rows, id)) <= 1
    /\ ~ins_req.committed => ins_rows = ins_before
    /\ ins_req.committed =>
          /\ \A k \in 1..Len(ins_before) :
                /\ k <= Len(ins_rows)
                /\ ins_rows[k] =
                      IF WritesFor(ins_before[k].chart_id) = {}
                      THEN ins_before[k]
                      ELSE LastWriteFor(ins_before[k].chart_id)
          /\ \A id \in ChartIds :
                WritesFor(id) # {} =>
                    \E k \in RowsFor(ins_rows, id) : ins_rows[k] = LastWriteFor(id)
          /\ Len(ins_rows) = Len(ins_before)
                + Cardinality({id \in ChartIds :
                                  WritesFor(id) # {} /\ RowsFor(ins_before, id) = {}})

C12_Witness ==
    /\ ins_req.op = "analyze_role"
    /\ ins_req.committed
    /\ Len(ins_before) = 2
    /\ Len(ins_rows) = 2
    /\ Len(ins_req.writes) = MaxCands
    /\ ins_rows[1].chart_id = ins_before[1].chart_id
    /\ ins_rows[1].chart_title # ins_before[1].chart_title
    /\ ins_rows[1].insights_json # ins_before[1].insights_json
    /\ ins_rows[2] = ins_before[2]

(***************************************************************************)
(* import_role_data.  One connection serves the whole call; every table of *)
(* bq_tables is created if missing and filled by INSERTs that are          *)
(* committed batch by batch.  The first exception ends the call.           *)
(***************************************************************************)
TableLists == {<<"A", "B">>, <<"B", "A">>}

\* The rows SELECT * returns for a source table that has n of them.
SrcOf(t, n) == [j \in 1..n |-> <<t, j>>]

\* Where a table's import can raise: nowhere, in get_table, in query (the
\* table is created by then) or while the rows are read, after j of them.
\* With "insert" the executemany of the batch that ends at row j raises at
\* the last row of the batch, the rows before it inserted and not committed.
FailPoints == {"none", "get_table", "query", "rows", "insert"}

\* Rows of the table that are committed when the call leaves it: all of them,
\* or the full batches among the j rows read before the exception.
Committed(n, j, fail) ==
    CASE fail = "none"      -> n
      [] fail = "rows"      -> (j \div BatchSize) * BatchSize
      [] fail = "insert"    -> ((j - 1) \div BatchSize) * BatchSize
      [] OTHER              -> 0

\* Rows the connection holds uncommitted when the exception is raised.
Pending(n, j, fail) ==
    IF fail = "insert" THEN j - Committed(n, j, fail) - 1 ELSE 0

\* Faulty variant of AfterException: the pending rows are committed.
AfterExceptionKeeping(committed, pending) == committed + pending

\* Line 244, conn.rollback(): the rows of the table are the committed ones.
AfterException(committed, pending) == committed

\* CREATE TABLE IF NOT EXISTS, then INSERT of the first c source rows.
Inserted(tab, t, n, c) ==
    [exists |-> TRUE, rows |-> tab.rows \o SubSeq(SrcOf(t, n), 1, c)]

\* What the call has done to table t when it leaves it.
TableAfter(tab, t, n, j, fail) ==
    IF fail = "get_table" THEN tab
    ELSE IF fail = "none" THEN Inserted(tab, t, n, n)
    ELSE Inserted(tab, t, n,
                  AfterException(Committed(n, j, fail), Pending(n, j, fail)))

\* The events of one table's import, in order.
Events(k, fail) ==
    LET e(kind) == [k |-> k, kind |-> kind]
    IN  CASE fail = "get_table" -> <<e("get_table"), e("raise")>>
          [] fail = "query"     -> <<e("get_table"), e("create"), e("query"),
                                     e("raise")>>
          [] fail \in {"rows", "insert"} ->
                 <<e("get_table"), e("create"), e("query"), e("insert"),
                   e("raise")>>
          [] OTHER              -> <<e("get_table"), e("create"), e("query"),
                                     e("insert")>>

\* Faulty variant of AfterTable: the loop logs the error and goes on.
AfterTableContinue(k, fail) == "loop"

\* Lines 243-246: an exception returns from the call; otherwise the loop goes
\* to the next table.
AfterTable(k, fail) == IF fail = "none" THEN "loop" ELSE "idle"

\* Faulty variant of ConfigOnFailure: the totals so far are written.
ConfigWithPartialTotals(cfg, total, sd) ==
    [cfg EXCEPT !.total_records = total, !.schema_descriptions = sd]

\* The return of line 246 comes before the config is touched.
ConfigOnFailure(cfg, total, sd) == cfg

\* Lines 250-253.
UpdateConfig(cfg, total, sd) ==
    [cfg EXCEPT !.total_records = total, !.schema_descriptions = sd]

\* create_role, as far as the import sees it: the store file and a config
\* with no totals yet.  initialize_role_db touches no imported table.
create_role_config ==
    \E ts \in TableLists :
        /\ imp_pc = "idle"
        /\ imp_cfg' = [exists |-> TRUE, bq_tables |-> ts, total_records |-> 0,
                       schema_descriptions |-> {}]
        /\ imp_resp' = NoImpResp
        /\ imp_log' = <<>>
        /\ imp_cfg0' = imp_cfg
        /\ imp_db0' = imp_db
        /\ imp_src' = [t \in TableNames |-> <<>>]
        /\ UNCHANGED <<imp_db, imp_pc, imp_k, imp_total, imp_sd, imp_failed,
                       imp_inflight,
                       notImport>>

\* Lines 145-192: the early returns, then the connection and the counters.
import_start ==
    \E client \in {"ok", "none"} :
        /\ imp_pc = "idle"
        /\ imp_cfg0' = imp_cfg
        /\ imp_db0' = imp_db
        /\ imp_log' = <<>>
        /\ imp_src' = [t \in TableNames |-> <<>>]
        /\ imp_total' = 0
        /\ imp_sd' = {}
        /\ imp_k' = 1
        /\ IF ~imp_cfg.exists
           THEN /\ imp_resp' = ImpResp(FALSE, "Role configuration not found.", "")
                /\ UNCHANGED imp_pc
           ELSE IF client = "none"
           THEN /\ imp_resp' = ImpResp(FALSE, "Failed to create BigQuery client.", "")
                /\ UNCHANGED imp_pc
           ELSE /\ imp_resp' = NoImpResp
                /\ imp_pc' = "loop"
        /\ imp_inflight' = 0
        /\ UNCHANGED <<imp_cfg, imp_db, imp_failed, notImport>>

\* Lines 204-246: one pass of the loop over bq_tables.
import_table ==
    /\ imp_pc = "loop"
    /\ imp_k <= Len(imp_cfg.bq_tables)
    /\ LET t == imp_cfg.bq_tables[imp_k] IN
       \E n \in 0..MaxSrc, fail \in FailPoints, j \in 0..MaxSrc :
           /\ j <= n
           /\ fail \notin {"rows", "insert"} => j = 0
           /\ fail = "insert" => j >= 1 /\ (j % BatchSize = 0 \/ j = n)
           /\ imp_inflight' = Pending(n, j, fail)
           /\ Len(imp_db[t].rows) + n <= MaxStored
           /\ imp_db' = [imp_db EXCEPT ![t] = TableAfter(@, t, n, j, fail)]
           /\ imp_log' = imp_log \o Events(imp_k, fail)
           /\ imp_src' = IF fail \in {"none", "rows", "insert"}
                         THEN [imp_src EXCEPT ![t] = SrcOf(t, n)] ELSE imp_src
           /\ imp_sd' = IF fail = "get_table" THEN imp_sd ELSE imp_sd \cup {t}
           /\ imp_total' = imp_total + Committed(n, j, fail)
           /\ imp_pc' = AfterTable(imp_k, fail)
           /\ imp_k' = imp_k + 1
           /\ IF fail = "none"
              THEN UNCHANGED <<imp_resp, imp_cfg, imp_failed>>
              ELSE /\ imp_resp' = ImpResp(FALSE, "Error importing table", t)
                   /\ imp_cfg' = ConfigOnFailure(imp_cfg, imp_total', imp_sd')
                   /\ imp_failed' = TRUE
    /\ UNCHANGED <<imp_cfg0, imp_db0, notImport>>

\* Lines 248-259: the loop is through; the config gets the totals.
import_finish ==
    /\ imp_pc = "loop"
    /\ imp_k > Len(imp_cfg.bq_tables)
    /\ imp_pc' = "idle"
    /\ imp_cfg' = UpdateConfig(imp_cfg, imp_total, imp_sd)
    /\ imp_resp' = IF imp_resp.ok THEN ImpResp(TRUE, "", "") ELSE imp_resp
    /\ UNCHANGED <<imp_db, imp_k, imp_total, imp_sd, imp_log, imp_cfg0,
                   imp_db0, imp_src, imp_failed, imp_inflight, notImport>>

NextImport ==
    \/ create_role_config
    \/ import_start
    \/ import_table
    \/ import_finish

SpecImport == Init /\ [][NextImport]_vars

\* The call that last ran has returned, and whether it failed at a table
\* (the table's index in bq_tables is then LastEvent.k).
ImportReturned == imp_pc = "idle" /\ imp_log # <<>>
LastEvent == imp_log[Len(imp_log)]
FailedAtTable == ImportReturned /\ LastEvent.kind = "raise"
RowsHeld == Len(imp_db["A"].rows) + Len(imp_db["B"].rows)

(***************************************************************************)
(* C13.  If importing any table fails, import_role_data returns ok:false   *)
(* with an error that names the failed table, and total_records and        *)
(* schema_descriptions of the config keep the values they had before the   *)
(* call.                                                                   *)
(***************************************************************************)
C13_FailedImportKeepsConfig ==
    FailedAtTable =>
        /\ ~imp_resp.ok
        /\ imp_resp.error = "Error importing table"
        /\ imp_resp.table = imp_cfg.bq_tables[LastEvent.k]
        /\ imp_cfg.total_records = imp_cfg0.total_records
        /\ imp_cfg.schema_descriptions = imp_cfg0.schema_descriptions

\* The second table failed after rows of the first were committed, on a
\* config that had totals from an earlier import.
C13_Witness ==
    /\ FailedAtTable
    /\ LastEvent.k = 2
    /\ imp_total > 0
    /\ imp_cfg0.total_records > 0
    /\ imp_cfg0.total_records # imp_total

(***************************************************************************)
(* C14.  In one call on a store that has neither table, if table B fails   *)
(* after table A succeeded, the store afterwards holds all of A's rows and *)
(* no table B.  Violated: CREATE TABLE is committed as soon as it runs, so *)
(* a failure in query or while the rows are read leaves table B behind.    *)
(***************************************************************************)
C14_FailedTableAbsent ==
    (/\ FailedAtTable
     /\ LastEvent.k = 2
     /\ \A t \in TableNames : ~imp_db0[t].exists)
    => /\ imp_db[imp_cfg.bq_tables[1]].exists
       /\ imp_db[imp_cfg.bq_tables[1]].rows = imp_src[imp_cfg.bq_tables[1]]
       /\ ~imp_db[imp_cfg.bq_tables[2]].exists

(***************************************************************************)
(* C15.  After any number of successful imports, re-imports included, each *)
(* imported table holds exactly the rows of its source, and total_records  *)
(* equals the number of rows the tables hold.  Violated: nothing empties a *)
(* table before the INSERTs, so a second import appends to the first.      *)
(***************************************************************************)
C15_TablesMatchSource ==
    (/\ ImportReturned
     /\ imp_resp = ImpResp(TRUE, "", "")
     /\ ~imp_failed)
    => /\ \A k \in 1..Len(imp_cfg.bq_tables) :
              imp_db[imp_cfg.bq_tables[k]].rows = imp_src[imp_cfg.bq_tables[k]]
       /\ imp_cfg.total_records = RowsHeld

(***************************************************************************)
(* C18.  import_role_data goes through the tables in the order of          *)
(* bq_tables, one at a time, and after the first table that fails no later *)
(* table is read or written.                                               *)
(***************************************************************************)
C18_TablesInOrderUntilFailure ==
    /\ \A p, q \in 1..Len(imp_log) : p < q => imp_log[p].k <= imp_log[q].k
    /\ \A p \in 1..Len(imp_log) :
           /\ imp_log[p].k \in 1..Len(imp_cfg.bq_tables)
           /\ \A m \in 1..imp_log[p].k : \E q \in 1..p : imp_log[q].k = m
           /\ imp_log[p].kind = "raise" => p = Len(imp_log)
    /\ (ImportReturned /\ imp_resp.ok) =>
           \A m \in 1..Len(imp_cfg.bq_tables) :
               \E p \in 1..Len(imp_log) : imp_log[p].k = m

\* The first of two tables failed and the call has returned: the second was
\* never touched.
C18_Witness ==
    /\ FailedAtTable
    /\ LastEvent.k = 1
    /\ Len(imp_cfg.bq_tables) = 2
    /\ imp_db = imp_db0

(***************************************************************************)
(* The operations of two roles on the role directory, each as far as the   *)
(* paths it opens.                                                         *)
(***************************************************************************)
\* What every operation records: who asked, and what it found.
RoleArrive(op, who, ok) ==
    /\ rl_op' = RoleOp(op, who, ok)
    /\ rl_got' = NoFile
    /\ rl_cfg0' = rl_cfg
    /\ rl_plan0' = rl_plan
    /\ rl_sa0' = rl_sa
    /\ rl_db0' = rl_db
    /\ UNCHANGED <<rl_names, notRoles>>

\* initialize_role_db: the store file is created if it is missing.
Initialized(db) == [db EXCEPT !.exists = TRUE]

\* create_role.  The store and the config are written before sa_json is
\* parsed.
role_create ==
    \E who \in 1..2, fields \in BOOLEAN, sa_json \in {"", "valid", "invalid"} :
        LET role_name == rl_names[who]
            fk == FileKey(role_name)
            dk == get_role_db_path(role_name)
        IN  IF ~fields
            THEN /\ RoleArrive("create_role", who, FALSE)
                 /\ UNCHANGED <<rl_cfg, rl_plan, rl_sa, rl_db>>
            ELSE /\ rl_db' = [rl_db EXCEPT ![dk] = Initialized(@)]
                 /\ rl_cfg' = [rl_cfg EXCEPT ![fk] = ConfigFile(role_name, 0)]
                 /\ rl_sa' = IF sa_json = "valid"
                             THEN [rl_sa EXCEPT ![fk] = SaFile(role_name)]
                             ELSE rl_sa
                 /\ RoleArrive("create_role", who, sa_json # "invalid")
                 /\ UNCHANGED rl_plan

\* import_role_data: reads the config and the credential file of the file
\* key, connects to the store of the store key, writes the config back.
role_import ==
    \E who \in 1..2, outcome \in {"ok", "no_client", "table_failed"} :
        LET role_name == rl_names[who]
            fk == FileKey(role_name)
            dk == get_role_db_path(role_name)
        IN  IF ~rl_cfg[fk].exists \/ outcome = "no_client"
            THEN /\ RoleArrive("import_role_data", who, FALSE)
                 /\ UNCHANGED <<rl_cfg, rl_plan, rl_sa, rl_db>>
            ELSE IF outcome = "table_failed"
            THEN /\ rl_db' = [rl_db EXCEPT ![dk] = Initialized(@)]
                 /\ RoleArrive("import_role_data", who, FALSE)
                 /\ UNCHANGED <<rl_cfg, rl_plan, rl_sa>>
            ELSE /\ rl_db' = [rl_db EXCEPT ![dk] =
                                 [Initialized(@) EXCEPT !.imported = TRUE]]
                 /\ rl_cfg' = [rl_cfg EXCEPT ![fk].total_records = 1]
                 /\ RoleArrive("import_role_data", who, TRUE)
                 /\ UNCHANGED <<rl_plan, rl_sa>>

\* analyze_role: reads and writes the store of the store key, writes the
\* plan of the file key.
role_analyze ==
    \E who \in 1..2, generated \in BOOLEAN, cs \in SUBSET RoleChartIds :
        LET role_name == rl_names[who]
            fk == FileKey(role_name)
            dk == get_role_db_path(role_name)
        IN  IF ~rl_db[dk].exists \/ ~rl_db[dk].imported \/ ~generated
            THEN /\ RoleArrive("analyze_role", who, FALSE)
                 /\ UNCHANGED <<rl_cfg, rl_plan, rl_sa, rl_db>>
            ELSE /\ rl_plan' = [rl_plan EXCEPT ![fk] = PlanFile(cs)]
                 /\ rl_db' = [rl_db EXCEPT ![dk].insights = @ \/ cs # {}]
                 /\ RoleArrive("analyze_role", who, TRUE)
                 /\ UNCHANGED <<rl_cfg, rl_sa>>

\* The chart upsert of create_visualization: the NameError of line 423 ends
\* it before it writes.
role_upsert_chart ==
    \E who \in 1..2 :
        /\ RoleArrive("create_visualization", who, FALSE)
        /\ UNCHANGED <<rl_cfg, rl_plan, rl_sa, rl_db>>

\* api_custom_role_delete_chart: rewrites the plan of the file key.
role_delete_chart ==
    \E who \in 1..2, chart_id \in RoleChartIds :
        LET fk == FileKey(rl_names[who])
        IN  IF ~rl_plan[fk].exists \/ chart_id \notin rl_plan[fk].charts
            THEN /\ RoleArrive("delete_chart", who, FALSE)
                 /\ UNCHANGED <<rl_cfg, rl_plan, rl_sa, rl_db>>
            ELSE /\ rl_plan' = [rl_plan EXCEPT ![fk].charts = @ \ {chart_id}]
                 /\ RoleArrive("delete_chart", who, TRUE)
                 /\ UNCHANGED <<rl_cfg, rl_sa, rl_db>>

\* The stem of the path get_role_config reads: the expression of
\* get_role_db_path, repeated at line 422.
safe_role_name(role_name) ==
    ReplaceSpaces(RStrip(LStrip(SelectSeq(role_name, Kept))))

\* Lines 422-429: the config file at the safe name, None when there is none.
ConfigAt(cfg, role_name) ==
    IF safe_role_name(role_name) \in FileKeys
    THEN cfg[safe_role_name(role_name)] ELSE NoFile

\* get_role_config.
role_get_config ==
    \E who \in 1..2 :
        /\ rl_op' = RoleOp("get_role_config", who,
                           ConfigAt(rl_cfg, rl_names[who]).exists)
        /\ rl_got' = ConfigAt(rl_cfg, rl_names[who])
        /\ rl_cfg0' = rl_cfg
        /\ rl_plan0' = rl_plan
        /\ rl_sa0' = rl_sa
        /\ rl_db0' = rl_db
        /\ UNCHANGED <<rl_names, rl_cfg, rl_plan, rl_sa, rl_db, notRoles>>

NextRoles ==
    \/ role_get_config
    \/ role_create
    \/ role_import
    \/ role_analyze
    \/ role_upsert_chart
    \/ role_delete_chart

SpecRoles == InitRoles /\ [][NextRoles]_vars

\* The role of the last operation and the other one.
Actor == rl_names[rl_op.who]
Other == rl_names[3 - rl_op.who]

(***************************************************************************)
(* C16.  For two role names whose sanitized storage keys differ, every     *)
(* operation for one of them (create_role, import, analyze, chart upsert,  *)
(* chart delete) leaves the config, the plan, the credential file and the  *)
(* store of the other unchanged.  Violated: only the store path goes       *)
(* through the sanitizer; the three files are named by replace(' ', '_'),  *)
(* which gives "! a" and "!_a" the same files although their sanitized     *)
(* keys, "a" and "_a", differ.                                             *)
(***************************************************************************)
C16_OtherRoleUnchanged ==
    (/\ rl_op.op # "none"
     /\ get_role_db_path(Actor) # get_role_db_path(Other))
    => /\ rl_cfg[FileKey(Other)] = rl_cfg0[FileKey(Other)]
       /\ rl_plan[FileKey(Other)] = rl_plan0[FileKey(Other)]
       /\ rl_sa[FileKey(Other)] = rl_sa0[FileKey(Other)]
       /\ rl_db[get_role_db_path(Other)] = rl_db0[get_role_db_path(Other)]

(***************************************************************************)
(* C17.  Whenever create_role returns ok:false, for missing fields or for  *)
(* a credential that is not valid JSON, no config, credential file or      *)
(* store of that role has been created or modified.  Violated: the store   *)
(* is initialized and the config written before the credential is parsed.  *)
(***************************************************************************)
C17_FailedCreateLeavesNothing ==
    (rl_op.op = "create_role" /\ ~rl_op.ok)
    => /\ rl_cfg[FileKey(Actor)] = rl_cfg0[FileKey(Actor)]
       /\ rl_sa[FileKey(Actor)] = rl_sa0[FileKey(Actor)]
       /\ rl_db[get_role_db_path(Actor)] = rl_db0[get_role_db_path(Actor)]

(***************************************************************************)
(* infer_column_type.  The column name is the sequence of its characters;  *)
(* a keyword matches when it is a substring of the lower-cased name.  The  *)
(* cursor is what its sampling query does: raise, or return rows.          *)
(***************************************************************************)
ColumnNames == {<<"I", "D">>, <<"i", "s", "_", "x">>, <<"m", "i", "s", "c">>}

\* str.lower for the characters of ColumnNames.
LowerChar(ch) == CASE ch = "I" -> "i" [] ch = "D" -> "d" [] OTHER -> ch
Lower(s) == [k \in 1..Len(s) |-> LowerChar(s[k])]

\* keyword in column_lower.
Contains(s, kw) ==
    \E k \in 1..(Len(s) - Len(kw) + 1) : SubSeq(s, k, k + Len(kw) - 1) = kw

\* The keyword lists of lines 29-40, in order.
Keywords1 ==
    {<<"i", "d">>, <<"_", "i", "d">>}
Keywords2 ==
    {<<"d", "a", "t", "e">>, <<"t", "i", "m", "e">>,
     <<"c", "r", "e", "a", "t", "e", "d">>,
     <<"u", "p", "d", "a", "t", "e", "d">>,
     <<"t", "i", "m", "e", "s", "t", "a", "m", "p">>}
Keywords3 ==
    {<<"a", "g", "e">>, <<"c", "o", "u", "n", "t">>,
     <<"n", "u", "m", "b", "e", "r">>, <<"t", "o", "t", "a", "l">>,
     <<"a", "m", "o", "u", "n", "t">>, <<"v", "a", "l", "u", "e">>,
     <<"p", "r", "i", "c", "e">>, <<"c", "o", "s", "t">>,
     <<"q", "u", "a", "n", "t", "i", "t", "y">>,
     <<"o", "r", "d", "e", "r", "s">>, <<"i", "t", "e", "m", "s">>}
Keywords4 ==
    {<<"r", "a", "t", "e">>, <<"p", "e", "r", "c", "e", "n", "t">>,
     <<"r", "a", "t", "i", "o">>, <<"a", "v", "e", "r", "a", "g", "e">>,
     <<"a", "v", "g">>, <<"s", "c", "o", "r", "e">>,
     <<"r", "a", "t", "i", "n", "g">>}
Keywords5 ==
    {<<"e", "m", "a", "i", "l">>, <<"n", "a", "m", "e">>,
     <<"t", "i", "t", "l", "e">>,
     <<"d", "e", "s", "c", "r", "i", "p", "t", "i", "o", "n">>,
     <<"t", "e", "x", "t">>, <<"c", "a", "t", "e", "g", "o", "r", "y">>,
     <<"t", "y", "p", "e">>, <<"s", "t", "a", "t", "u", "s">>,
     <<"g", "e", "n", "d", "e", "r">>,
     <<"l", "o", "c", "a", "t", "i", "o", "n">>,
     <<"s", "o", "u", "r", "c", "e">>,
     <<"c", "h", "a", "n", "n", "e", "l">>,
     <<"p", "r", "e", "f", "e", "r", "e", "n", "c", "e">>,
     <<"s", "t", "y", "l", "e">>, <<"s", "i", "z", "e">>}
Keywords6 ==
    {<<"i", "s", "_">>, <<"h", "a", "s", "_">>,
     <<"a", "c", "t", "i", "v", "e">>,
     <<"e", "n", "a", "b", "l", "e", "d">>,
     <<"v", "i", "s", "i", "b", "l", "e">>,
     <<"p", "u", "b", "l", "i", "c">>}

AnyOf(K, s) == \E kw \in K : Contains(s, kw)

\* Lines 26-40: the first list with a keyword in the name decides; "none"
\* when no list has one.
NameTier(column_name) ==
    LET column_lower == Lower(column_name)
    IN  CASE AnyOf(Keywords1, column_lower) -> "INTEGER"
          [] AnyOf(Keywords2, column_lower) -> "DATETIME"
          [] AnyOf(Keywords3, column_lower) -> "INTEGER"
          [] AnyOf(Keywords4, column_lower) -> "REAL"
          [] AnyOf(Keywords5, column_lower) -> "TEXT"
          [] AnyOf(Keywords6, column_lower) -> "BOOLEAN"
          [] OTHER -> "none"

\* Stored values, and what the checks of the sampling loop make of each.
SampleValues == {"42", "3.5", "2024-01-05", "true"}
IsNumeric(v) == v \in {"42", "3.5", "1"}
IsInteger(v) == v \in {"42", "1"}
IsDate(v) == v = "2024-01-05"
IsBoolean(v) == v \in {"true", "1"}

\* What the cursor can do with the sampling query.
SampleData ==
    {[raises |-> TRUE, rows |-> <<>>]} \cup
    {[raises |-> FALSE, rows |-> r] : r \in SeqsUpTo(SampleValues, MaxSample)}

CountOf(rows, Test(_)) == Cardinality({k \in 1..Len(rows) : Test(rows[k])})

\* Faulty variants of SampleTier.  Classify is the sample analysis with a
\* slack on each threshold: slack 0 is the strict comparison, slack 1 on
\* tenths of whole counts is "at least".
Classify(data, slack70, slack80) ==
    IF data.rows = <<>> THEN "TEXT"
    ELSE LET total_samples == Len(data.rows)
             date_count    == CountOf(data.rows, IsDate)
             boolean_count == CountOf(data.rows, IsBoolean)
             numeric_count == CountOf(data.rows, IsNumeric)
             integer_count == CountOf(data.rows, IsInteger)
         IN  IF 10 * date_count + slack70 > 7 * total_samples THEN "DATETIME"
             ELSE IF 10 * boolean_count + slack70 > 7 * total_samples
             THEN "BOOLEAN"
             ELSE IF 10 * numeric_count + slack70 > 7 * total_samples
             THEN IF 10 * integer_count + slack80 > 8 * numeric_count
                  THEN "INTEGER" ELSE "REAL"
             ELSE "TEXT"
\* At least 70% of the samples decide.
SampleTierAtLeast70(data) ==
    IF data.raises THEN "TEXT" ELSE Classify(data, 1, 0)
\* At least 80% of the numeric samples make an INTEGER.
SampleTierAtLeast80(data) ==
    IF data.raises THEN "TEXT" ELSE Classify(data, 0, 1)
\* The except of lines 104-105 is missing.
SampleTierUncaught(data) ==
    IF data.raises THEN "raised" ELSE Classify(data, 0, 0)

\* Lines 43-105: TEXT when the query raises or returns nothing, else by the
\* share of dates, booleans and numbers among the rows.
SampleTier(data) ==
    IF data.raises \/ data.rows = <<>> THEN "TEXT"
    ELSE LET total_samples == Len(data.rows)
             date_count    == CountOf(data.rows, IsDate)
             boolean_count == CountOf(data.rows, IsBoolean)
             numeric_count == CountOf(data.rows, IsNumeric)
             integer_count == CountOf(data.rows, IsInteger)
         IN  IF 10 * date_count > 7 * total_samples THEN "DATETIME"
             ELSE IF 10 * boolean_count > 7 * total_samples THEN "BOOLEAN"
             ELSE IF 10 * numeric_count > 7 * total_samples
             THEN IF 10 * integer_count > 8 * numeric_count
                  THEN "INTEGER" ELSE "REAL"
             ELSE "TEXT"

\* Faulty variant of infer_column_type: the stored data decides.
InferFromSample(column_name, data) == SampleTier(data)

infer_column_type(column_name, data) ==
    LET by_name == NameTier(column_name)
    IN  IF by_name # "none" THEN by_name ELSE SampleTier(data)

\* One call, on any column and any table content.
call_infer_column_type ==
    \E column_name \in ColumnNames, data \in SampleData :
        /\ inf_prev' = inf_last
        /\ inf_last' = [column |-> column_name, raises |-> data.raises,
                        sampled |-> Len(data.rows),
                        by_data |-> SampleTier(data),
                        result |-> infer_column_type(column_name, data)]
        /\ UNCHANGED notInfer

NextInfer == call_infer_column_type

SpecInfer == Init /\ [][NextInfer]_vars

(***************************************************************************)
(* C20.  For every column name that contains a name-pattern keyword,       *)
(* infer_column_type returns the same semantic type for any two table      *)
(* contents, an empty table and a failing sample query included: the       *)
(* result depends on the column name only.                                 *)
(***************************************************************************)
C20_KeywordColumnIgnoresData ==
    (/\ inf_prev.column = inf_last.column
     /\ NameTier(inf_last.column) # "none")
    => inf_prev.result = inf_last.result

\* Two calls on a keyword column whose contents alone would have given two
\* different types, one of them with a sampling query that raises.
C20_Witness ==
    /\ inf_prev.column = inf_last.column
    /\ NameTier(inf_last.column) # "none"
    /\ inf_prev.raises
    /\ inf_last.sampled = MaxSample
    /\ inf_prev.by_data # inf_last.by_data
    /\ inf_last.by_data # NameTier(inf_last.column)

(***************************************************************************)
(* The sample tier at the size of the code's query.  The query returns the *)
(* first SampleLimit non-null values of the column; the loop over them     *)
(* only counts, so the table is kept as the number of rows per value and   *)
(* its rows are handed to the loop grouped by value.                       *)
(***************************************************************************)
SampleLimit == 10

NoKeywordColumn == <<"m", "i", "s", "c">>

Repeat(v, n) == [k \in 1..n |-> v]

\* SELECT column FROM table WHERE column IS NOT NULL LIMIT 10.
Fetched(table) ==
    [raises |-> FALSE,
     rows |-> Repeat("2024-01-05", table["2024-01-05"]) \o
              Repeat("true", table["true"]) \o Repeat("1", table["1"]) \o
              Repeat("42", table["42"]) \o Repeat("3.5", table["3.5"]) \o
              Repeat("abc", table["abc"])]

RowCount(table) ==
    table["2024-01-05"] + table["true"] + table["1"] + table["42"] +
    table["3.5"] + table["abc"]

\* A row is stored in the column.
sample_insert ==
    \E v \in TableValues :
        /\ RowCount(smp_table) < SampleLimit
        /\ smp_table' = [smp_table EXCEPT ![v] = @ + 1]
        /\ smp_result' = "none"
        /\ UNCHANGED notSample

\* infer_column_type is called for the column.
sample_infer ==
    /\ smp_result' = infer_column_type(NoKeywordColumn, Fetched(smp_table))
    /\ UNCHANGED <<smp_table, notSample>>

NextSample ==
    \/ sample_insert
    \/ sample_infer

SpecSample == Init /\ [][NextSample]_vars

\* The counts of the sampling loop for the column as it is.
Total    == RowCount(smp_table)
Dates    == smp_table["2024-01-05"]
Booleans == smp_table["true"] + smp_table["1"]
Numerics == smp_table["1"] + smp_table["42"] + smp_table["3.5"]
Integers == smp_table["1"] + smp_table["42"]

\* The types of the categories that hold at least num/10 of the samples.
TypesReaching(num, strict) ==
    LET Reaches(n) == IF strict THEN 10 * n > num * Total
                                ELSE 10 * n >= num * Total
    IN  (IF Reaches(Dates) THEN {"DATETIME"} ELSE {}) \cup
        (IF Reaches(Booleans) THEN {"BOOLEAN"} ELSE {}) \cup
        (IF Reaches(Numerics) THEN {"INTEGER", "REAL"} ELSE {})

(***************************************************************************)
(* C21, as stated.  For a column without keyword, if at least 70% of the   *)
(* fetched samples fall in one category, infer_column_type assigns the     *)
(* type of such a category and not TEXT, also when exactly 70% match.      *)
(* Violated: the comparisons of lines 82-86 are strict, so 7 date-like     *)
(* samples of 10 give TEXT.                                                *)
(***************************************************************************)
C21_AtLeastSeventyPercent ==
    (smp_result # "none" /\ Total > 0 /\ TypesReaching(7, FALSE) # {})
    => smp_result \in TypesReaching(7, FALSE)

(***************************************************************************)
(* C21, amended.  For a column without keyword, if more than 70% of the    *)
(* fetched samples fall in one category, infer_column_type assigns the     *)
(* type of such a category, all samples matching included; when no         *)
(* category holds more than 70%, exactly 70% included, it assigns TEXT.    *)
(***************************************************************************)
C21_MoreThanSeventyPercent ==
    (smp_result # "none" /\ Total > 0)
    => IF TypesReaching(7, TRUE) # {}
       THEN smp_result \in TypesReaching(7, TRUE)
       ELSE smp_result = "TEXT"

\* Ten samples, eight of them dates: DATETIME.
C21_Witness ==
    /\ Total = SampleLimit
    /\ Dates = 8
    /\ smp_result = "DATETIME"

(***************************************************************************)
(* C26, as stated.  When the sample tier chooses the numeric category, the *)
(* result is INTEGER if at least 80% of the numeric samples are integral,  *)
(* exactly 80% included, and REAL otherwise.  Violated: the comparison of  *)
(* line 97 is strict, so 8 integral samples of 10 numeric ones give REAL.  *)
(***************************************************************************)
C26_AtLeastEightyPercent ==
    smp_result \in {"INTEGER", "REAL"}
    => (smp_result = "INTEGER" <=> 10 * Integers >= 8 * Numerics)

(***************************************************************************)
(* C26, amended.  When the sample tier chooses the numeric category, the   *)
(* result is INTEGER if more than 80% of the numeric samples are integral  *)
(* and REAL otherwise, exactly 80% included.                               *)
(***************************************************************************)
C26_MoreThanEightyPercent ==
    smp_result \in {"INTEGER", "REAL"}
    => (smp_result = "INTEGER" <=> 10 * Integers > 8 * Numerics)

\* Ten numeric samples, nine of them integral: INTEGER.
C26_Witness ==
    /\ Total = SampleLimit
    /\ Numerics = SampleLimit
    /\ Integers = 9
    /\ smp_result = "INTEGER"

(***************************************************************************)
(* C22.  infer_column_type returns one of INTEGER, REAL, TEXT, DATETIME    *)
(* and BOOLEAN for every column name and table content and never raises;   *)
(* when no keyword matches and the sample query raises or returns no row,  *)
(* the result is TEXT.                                                     *)
(***************************************************************************)
C22_AlwaysOneOfFiveTypes ==
    inf_last # NoCall
    => /\ inf_last.result \in {"INTEGER", "REAL", "TEXT", "DATETIME", "BOOLEAN"}
       /\ (NameTier(inf_last.column) = "none"
           /\ (inf_last.raises \/ inf_last.sampled = 0))
          => inf_last.result = "TEXT"

\* A call on a column without keyword whose sample query raised.
C22_Witness ==
    /\ NameTier(inf_last.column) = "none"
    /\ inf_last.column # <<>>
    /\ inf_last.raises
    /\ inf_last.result = "TEXT"

(***************************************************************************)
(* C23.  If generating the narrative insights fails for a chart during     *)
(* analyze_role, the call writes no chart_insights record for that chart   *)
(* id: none is created and an existing one keeps its insights.  Stated for *)
(* calls whose candidates carry different ids, so that a record for the id *)
(* can only be the failed chart's own.  Violated: generate_chart_insights  *)
(* catches the failure of the LLM call and returns a one-element list with *)
(* the error text, which analyze_role stores like any other insights.      *)
(***************************************************************************)
C23_FailedInsightsWriteNothing ==
    (/\ Ran
     /\ resp.ok
     /\ \A j, k \in 1..Len(charts.items) :
            j # k => charts.items[j].id # charts.items[k].id)
    => \A k \in failedAt : charts.items[k].id \notin written

(***************************************************************************)
(* C29.  Running the candidate KPI formulas and chart queries while        *)
(* analyze_role validates them leaves the imported data table as it was    *)
(* when the call arrived, whatever SQL the LLM proposed, and the only      *)
(* change of the store the call commits is the upsert of chart_insights    *)
(* records for the charts it wrote for.  Violated: the candidate text goes *)
(* to cursor.execute as it is, so a DELETE runs in the call's transaction  *)
(* and is committed with the insights at line 407.                         *)
(***************************************************************************)
C29_ValidationLeavesDataUnchanged ==
    (Ran /\ resp.ok) =>
        /\ tbl = tblBefore
        /\ \A id \in DOMAIN chart_insights :
              id \notin written => chart_insights[id] = insBefore[id]

(***************************************************************************)
(* C30.  A create_visualization request without chart_id, made with a      *)
(* description on a role with a plan and a store, either is refused for    *)
(* its query (status 400) or adds exactly one chart to the plan and leaves *)
(* every chart the plan held as it was: the id derived from the            *)
(* description never replaces a chart.  Violated: the handler raises       *)
(* NameError at line 423 and answers 500 without adding a chart.           *)
(***************************************************************************)
C30_NewChartAddsExactlyOne ==
    (/\ Returned("create_visualization")
     /\ req.id = ""
     /\ req.body # ""
     /\ planBefore.exists
     /\ dbExists)
    => \/ resp.status = 400
       \/ /\ resp.ok
          /\ Len(plan.charts) = Len(planBefore.charts) + 1
          /\ \A k \in 1..Len(planBefore.charts) :
                plan.charts[k] = planBefore.charts[k]

\* The table the last call failed at and the rows the call added to it.
FailedTable == imp_cfg.bq_tables[LastEvent.k]
AddedTo(t) == Len(imp_db[t].rows) - Len(imp_db0[t].rows)

(***************************************************************************)
(* C24.  When an error occurs while a table is imported, no row of the     *)
(* batch in flight remains in the store: the rows the call added to the    *)
(* failed table are the rows of the batches committed before the failure,  *)
(* a whole number of batches and never part of one.                        *)
(***************************************************************************)
C24_NoPartialBatch ==
    FailedAtTable =>
        /\ AddedTo(FailedTable) % BatchSize = 0
        /\ AddedTo(FailedTable) >= 0
        /\ imp_db[FailedTable].rows =
              imp_db0[FailedTable].rows \o
              SubSeq(imp_src[FailedTable], 1, AddedTo(FailedTable))

\* An executemany raised after it had inserted a row into a table that held
\* rows of an earlier import; the table is as it was.
C24_Witness ==
    /\ FailedAtTable
    /\ imp_inflight > 0
    /\ imp_db0[FailedTable].rows # <<>>
    /\ imp_db[FailedTable] = imp_db0[FailedTable]

(***************************************************************************)
(* C25.  All storage keys of a role come from one sanitized form of its    *)
(* name, so for every name for which create_role returned ok:true a        *)
(* following get_role_config with that name returns the config that was    *)
(* written, the one import_role_data and analyze_role find.  Violated:     *)
(* create_role and import_role_data name the config with replace(' ','_')  *)
(* alone, get_role_config with the sanitized name; for "a!" the first is   *)
(* a!.json and the second a.json.                                          *)
(***************************************************************************)
C25_GetReturnsWrittenConfig ==
    (/\ rl_op.op = "get_role_config"
     /\ rl_cfg[FileKey(Actor)].exists
     /\ rl_cfg[FileKey(Actor)].role_name = Actor)
    => rl_got = rl_cfg[FileKey(Actor)]

(***************************************************************************)
(* Two requests for one role at once.  The server is started with          *)
(* app.run, which serves every request in a thread of its own; no handler  *)
(* takes a lock.  A request is a sequence of steps, each one read or write *)
(* of the plan file or one commit on the store; the steps of the two       *)
(* threads interleave freely.  A round ends when no request is running.    *)
(***************************************************************************)
\* The validated chart ids an analyze_role call can end up with.
AnalyzeOutputs == {{"c1"}, {"c1", "c2"}}

Running(p, op, arg, at, loaded) ==
    [op |-> op, arg |-> arg, pc |-> at, loaded |-> loaded, ok |-> FALSE]
Done(p, ok) == [cc_proc[p] EXCEPT !.pc = "done", !.ok = ok, !.loaded = NoPlanFile]

\* What each request does when it runs alone, on plan and chart_insights.
AnalyzeAlone(st, cs, p) ==
    [plan |-> [exists |-> TRUE, charts |-> cs, kpis |-> {}],
     ins  |-> [c \in CcChartIds |-> IF c \in cs THEN p ELSE st.ins[c]]]
DeleteChartAlone(st, cs) ==
    IF st.plan.exists /\ cs \subseteq st.plan.charts
    THEN [st EXCEPT !.plan.charts = @ \ cs] ELSE st
CreateKpiAlone(st, ks) ==
    IF ks \cap st.plan.kpis # {} THEN st
    ELSE [st EXCEPT !.plan = [exists |-> TRUE, charts |-> st.plan.charts,
                              kpis |-> st.plan.kpis \cup ks]]

\* The request of thread p, run alone on st.
Alone(st, p) ==
    CASE cc_proc[p].op = "analyze_role" -> AnalyzeAlone(st, cc_proc[p].arg, p)
      [] cc_proc[p].op = "delete_chart" -> DeleteChartAlone(st, cc_proc[p].arg)
      [] cc_proc[p].op = "create_kpi"   -> CreateKpiAlone(st, cc_proc[p].arg)
      [] OTHER -> st

\* analyze_role: the LLM calls and the validation loops, on a connection of
\* its own; nothing is visible to the other thread yet.
cc_analyze_start(p) ==
    \E cs \in AnalyzeOutputs :
        /\ cc_proc[p].pc = "idle"
        /\ cc_proc' = [cc_proc EXCEPT ![p] =
                          Running(p, "analyze_role", cs, "validated", NoPlanFile)]
        /\ UNCHANGED <<cc_plan, cc_ins, cc_base, notConc>>

\* Line 407: conn.commit() makes the upserts of the chart loop visible.
cc_analyze_commit(p) ==
    /\ cc_proc[p].op = "analyze_role"
    /\ cc_proc[p].pc = "validated"
    /\ cc_ins' = [c \in CcChartIds |->
                     IF c \in cc_proc[p].arg THEN p ELSE cc_ins[c]]
    /\ cc_proc' = [cc_proc EXCEPT ![p].pc = "committed"]
    /\ UNCHANGED <<cc_plan, cc_base, notConc>>

\* Line 416: plan_path.write_text.
cc_analyze_save(p) ==
    /\ cc_proc[p].op = "analyze_role"
    /\ cc_proc[p].pc = "committed"
    /\ cc_plan' = [exists |-> TRUE, charts |-> cc_proc[p].arg, kpis |-> {}]
    /\ cc_proc' = [cc_proc EXCEPT ![p] = Done(p, TRUE)]
    /\ UNCHANGED <<cc_ins, cc_base, notConc>>

\* api_custom_role_delete_chart, lines 569-574: the plan is read.
cc_delete_load(p) ==
    \E c \in CcChartIds :
        /\ cc_proc[p].pc = "idle"
        /\ cc_proc' = [cc_proc EXCEPT ![p] =
              IF cc_plan.exists
              THEN Running(p, "delete_chart", {c}, "loaded", cc_plan)
              ELSE [Running(p, "delete_chart", {c}, "done", NoPlanFile)
                       EXCEPT !.ok = FALSE]]
        /\ UNCHANGED <<cc_plan, cc_ins, cc_base, notConc>>

\* Lines 577-591: the chart is removed from what was read and the plan is
\* written back.
cc_delete_write(p) ==
    /\ cc_proc[p].op = "delete_chart"
    /\ cc_proc[p].pc = "loaded"
    /\ IF cc_proc[p].arg \subseteq cc_proc[p].loaded.charts
       THEN /\ cc_plan' = [cc_proc[p].loaded EXCEPT !.charts = @ \ cc_proc[p].arg]
            /\ cc_proc' = [cc_proc EXCEPT ![p] = Done(p, TRUE)]
       ELSE /\ cc_proc' = [cc_proc EXCEPT ![p] = Done(p, FALSE)]
            /\ UNCHANGED cc_plan
    /\ UNCHANGED <<cc_ins, cc_base, notConc>>

\* create_kpi of kpi_routes, load_role_plan: an empty plan when the file is
\* missing.
cc_kpi_load(p) ==
    \E k \in CcKpiIds :
        /\ cc_proc[p].pc = "idle"
        /\ cc_proc' = [cc_proc EXCEPT ![p] =
                          Running(p, "create_kpi", {k}, "loaded", cc_plan)]
        /\ UNCHANGED <<cc_plan, cc_ins, cc_base, notConc>>

\* create_kpi: the id check, the append and save_role_plan.
cc_kpi_save(p) ==
    /\ cc_proc[p].op = "create_kpi"
    /\ cc_proc[p].pc = "loaded"
    /\ IF cc_proc[p].arg \cap cc_proc[p].loaded.kpis # {}
       THEN /\ cc_proc' = [cc_proc EXCEPT ![p] = Done(p, FALSE)]
            /\ UNCHANGED cc_plan
       ELSE /\ cc_plan' = [exists |-> TRUE,
                           charts |-> cc_proc[p].loaded.charts,
                           kpis |-> cc_proc[p].loaded.kpis \cup cc_proc[p].arg]
            /\ cc_proc' = [cc_proc EXCEPT ![p] = Done(p, TRUE)]
    /\ UNCHANGED <<cc_ins, cc_base, notConc>>

\* The chart upsert of create_visualization: NameError at line 423, status
\* 500, nothing written.
cc_upsert(p) ==
    \E c \in CcChartIds :
        /\ cc_proc[p].pc = "idle"
        /\ cc_proc' = [cc_proc EXCEPT ![p] =
              [Running(p, "create_visualization", {c}, "done", NoPlanFile)
                  EXCEPT !.ok = FALSE]]
        /\ UNCHANGED <<cc_plan, cc_ins, cc_base, notConc>>

\* Both threads are through: the next requests start from what is stored.
cc_round ==
    /\ \A p \in Threads : cc_proc[p].pc \in {"idle", "done"}
    /\ \E p \in Threads : cc_proc[p].pc = "done"
    /\ cc_proc' = [p \in Threads |-> IdleThread]
    /\ cc_base' = [plan |-> cc_plan, ins |-> cc_ins]
    /\ UNCHANGED <<cc_plan, cc_ins, notConc>>

NextConc ==
    \/ \E p \in Threads : cc_analyze_start(p)
    \/ \E p \in Threads : cc_analyze_commit(p)
    \/ \E p \in Threads : cc_analyze_save(p)
    \/ \E p \in Threads : cc_delete_load(p)
    \/ \E p \in Threads : cc_delete_write(p)
    \/ \E p \in Threads : cc_kpi_load(p)
    \/ \E p \in Threads : cc_kpi_save(p)
    \/ \E p \in Threads : cc_upsert(p)
    \/ cc_round

SpecConc == Init /\ [][NextConc]_vars

\* Both threads have served a request; what is stored; what the two
\* requests leave when thread p's runs first and thread q's second.
BothDone == \A p \in Threads : cc_proc[p].pc = "done"
Stored == [plan |-> cc_plan, ins |-> cc_ins]
OneAfterTheOther(p, q) == Alone(Alone(cc_base, p), q)

\* What the requests that reported success leave in some order.
SuccessfulInOrder ==
    LET S == {p \in Threads : cc_proc[p].ok}
    IN  IF S = {} THEN {cc_base}
        ELSE IF S = Threads
        THEN {OneAfterTheOther(1, 2), OneAfterTheOther(2, 1)}
        ELSE {Alone(cc_base, CHOOSE p \in S : TRUE)}

(***************************************************************************)
(* C27.  Two analyze_role calls for one role that run at the same time are *)
(* serialized: when both have returned, the plan file and the              *)
(* chart_insights records are what the two calls leave when one runs       *)
(* after the other, in some order.  Violated: nothing orders the calls, so *)
(* the one that commits its insights last can write its plan first; the    *)
(* plan is then of one call and the insights of a shared chart id of the   *)
(* other.                                                                  *)
(***************************************************************************)
C27_AnalyzeCallsSerialized ==
    (BothDone /\ \A p \in Threads : cc_proc[p].op = "analyze_role")
    => Stored \in {OneAfterTheOther(1, 2), OneAfterTheOther(2, 1)}

(***************************************************************************)
(* C28.  When a chart upsert or a chart delete runs at the same time as    *)
(* another request that changes the plan of the role, no update is lost:   *)
(* when both have returned, the plan file is what the requests that        *)
(* reported success leave in some sequential order.  Violated: every       *)
(* handler reads the plan, changes its copy and writes it back, so the     *)
(* later write drops what the other request changed in between.            *)
(***************************************************************************)
C28_NoLostPlanUpdate ==
    (/\ BothDone
     /\ \E p \in Threads : cc_proc[p].op \in {"delete_chart", "create_visualization"})
    => cc_plan \in {st.plan : st \in SuccessfulInOrder}

====
